---- MODULE Spec2Model ----
(***************************************************************************)
(* Model of the Yandex.Market bidder: per-tenant reconciliation cycle      *)
(* (main.py), price decision and audit store (scr/update_data_ym.py) and   *)
(* the price dispatch (scr/update_ym.py).                                  *)
(*                                                                         *)
(* Cell values of a dataframe are tagged records: a number (in units of    *)
(* 1/Scale of a rouble, so that non-integer prices exist), the float NaN,  *)
(* or a value that does not parse as a number (a text, an empty string).   *)
(***************************************************************************)
EXTENDS Integers, Sequences, FiniteSets, TLC

\* ------------------------------------------------------------------ bounds
\* resolution of a price: a price is a multiple of 1/Scale
Scale == 4
\* largest input price, in roubles
MaxPrice == 4
\* largest dispatch batch of the dispatch specification
MaxBatch == 5
\* cycles a tenant runs in the cycle specification
MaxCycles == 2

\* ------------------------------------------------------------ cell values
Num(n) == [t |-> "num", v |-> n]
NaN == [t |-> "nan", v |-> 0]
Bad == [t |-> "str", v |-> 0]
None == NaN
Whole(k) == Num(k * Scale)

IsNum(x) == x.t = "num"
isna(x) == x.t = "nan"
to_numeric(x) == IF IsNum(x) THEN x ELSE NaN

\* comparisons of floats: any comparison with NaN is False, != with NaN is True
Gt(a, b) == IsNum(a) /\ IsNum(b) /\ a.v > b.v
Lt(a, b) == IsNum(a) /\ IsNum(b) /\ a.v < b.v
Ge(a, b) == IsNum(a) /\ IsNum(b) /\ a.v >= b.v
Le(a, b) == IsNum(a) /\ IsNum(b) /\ a.v <= b.v
Ne(a, b) == ~(IsNum(a) /\ IsNum(b) /\ a.v = b.v)
Sub(a, b) == IF IsNum(a) /\ IsNum(b) THEN Num(a.v - b.v) ELSE NaN
Add(a, b) == IF IsNum(a) /\ IsNum(b) THEN Num(a.v + b.v) ELSE NaN
\* Python's max(a, b): a unless b > a
PyMax(a, b) == IF Gt(b, a) THEN b ELSE a
\* int(x) of a non-negative float: truncation
PyInt(x) == x.v \div Scale

\* round(n/d) to the nearest integer, ties to even (Python's round)
RoundHalfEven(n, d) ==
    LET q == n \div d
        r == n % d
    IN IF 2 * r < d THEN q
       ELSE IF 2 * r > d THEN q + 1
       ELSE IF q % 2 = 0 THEN q ELSE q + 1

randint(a, b) == a..b

\* mutant of DiscountBase: the ends are truncated, not rounded
DiscountBaseTruncated(new_price) ==
    { Whole(d) : d \in ((13 * new_price.v) \div (10 * Scale))
                       .. ((16 * new_price.v) \div (10 * Scale)) }

\* round(random.uniform(new_price * 1.3, new_price * 1.6), 0)
DiscountBase(new_price) ==
    { Whole(d) : d \in RoundHalfEven(13 * new_price.v, 10 * Scale)
                       .. RoundHalfEven(16 * new_price.v, 10 * Scale) }

\* --------------------------------------------------------- reasons (PRIM)
EmptyStopMsg == "empty STOP value: item excluded from bidder processing"
FailedConditionsMsg == "does not satisfy price-change conditions"
FarBelowStopMsg == "price far below market: computed price below stop, set to stop"
FarBelowRaisedMsg == "price far below market: raised to mp_on_market - random"
BelowStopMsg == "price below stop: raised to stop + random"
OwnShopMsg == "price not changed: own shop already holds the minimum market price"
InvalidRangeMsg == "price not changed: invalid price range"
ChangedMsg == "price changed"
CalcErrorMsg == "error while calculating new price"
MpBelowStopMsg == "mp_on_market is below or equal to stop"

\* increment range of the below-stop branch
StopIncreaseMin == 20
StopIncreaseMax == 50

Outcome(p, msg, db) == [price |-> p, prim |-> msg, db |-> db]

\* ------------------------------------------------- calculate_new_price
FarBelowBranch(row, min_price_diff, max_price_diff) ==
    UNION { LET new_price == PyMax(Sub(row.mp, Whole(r)), row.stop)
            IN { Outcome(new_price,
                         IF new_price = row.stop THEN FarBelowStopMsg
                                                 ELSE FarBelowRaisedMsg,
                         d) : d \in DiscountBase(new_price) }
            : r \in randint(min_price_diff, max_price_diff) }

\* mutant of BelowStopBranch: the price is raised to the stop, without increment
BelowStopToStop(row) ==
    { Outcome(row.stop, BelowStopMsg, d) : d \in DiscountBase(row.stop) }

BelowStopBranch(row) ==
    UNION { LET new_price == Add(row.stop, Whole(k))
            IN { Outcome(new_price, BelowStopMsg, d) : d \in DiscountBase(new_price) }
            : k \in randint(StopIncreaseMin, StopIncreaseMax) }

\* mutant of MinNewPrice: the lower end of the far-above window in every case
MinNewPriceFar(row, min_price_diff, max_price_diff) ==
    PyMax(Sub(row.mp, Whole(max_price_diff)), row.stop)

\* the target window of the normal adjustment
MinNewPrice(row, min_price_diff, max_price_diff) ==
    IF Gt(Sub(row.price, row.mp), Whole(max_price_diff))
    THEN PyMax(Sub(row.mp, Whole(max_price_diff)), row.stop)
    ELSE PyMax(Sub(row.mp, Whole(min_price_diff)), row.stop)

\* mutant of MaxNewPrice: the near window ends one above the market price
MaxNewPriceAbove(row, min_price_diff, max_price_diff) ==
    IF Gt(Sub(row.price, row.mp), Whole(max_price_diff))
    THEN Sub(row.mp, Whole(min_price_diff))
    ELSE Add(row.mp, Whole(1))

MaxNewPrice(row, min_price_diff, max_price_diff) ==
    IF Gt(Sub(row.price, row.mp), Whole(max_price_diff))
    THEN Sub(row.mp, Whole(min_price_diff))
    ELSE Sub(row.mp, Whole(1))

\* new_price = max(random.randint(int(min_new_price), int(max_new_price)), int(stop))
NormalNewPrice(n, stop) == IF n > PyInt(stop) THEN n ELSE PyInt(stop)

NormalBranch(row, min_price_diff, max_price_diff) ==
    LET min_new_price == MinNewPrice(row, min_price_diff, max_price_diff)
        max_new_price == MaxNewPrice(row, min_price_diff, max_price_diff)
    IN IF Ge(min_new_price, max_new_price)
       THEN { Outcome(row.price, InvalidRangeMsg, None) }
       ELSE IF ~IsNum(min_new_price) \/ ~IsNum(max_new_price)
       THEN \* int(nan) raises ValueError: the except branch
            { Outcome(row.price, CalcErrorMsg, None) }
       ELSE UNION { LET new_price == Whole(NormalNewPrice(n, row.stop))
                    IN { Outcome(new_price, ChangedMsg, d) : d \in DiscountBase(new_price) }
                    : n \in randint(PyInt(min_new_price), PyInt(max_new_price)) }

\* mutant of calculate_new_price: the holder of the best price is looked at
\* before anything else
calculate_new_price_own_first(row, my_market, min_price_diff, max_price_diff) ==
    IF row.holder \in my_market
    THEN { Outcome(row.price, OwnShopMsg, None) }
    ELSE IF Gt(Sub(row.mp, row.price), Whole(max_price_diff))
    THEN IF min_price_diff > max_price_diff
         THEN { Outcome(row.price, CalcErrorMsg, None) }
         ELSE FarBelowBranch(row, min_price_diff, max_price_diff)
    ELSE IF Lt(row.price, row.stop)
    THEN BelowStopBranch(row)
    ELSE NormalBranch(row, min_price_diff, max_price_diff)

\* the set of (new_price, reason, discount_base) the function can return
calculate_new_price(row, my_market, min_price_diff, max_price_diff) ==
    IF Gt(Sub(row.mp, row.price), Whole(max_price_diff))
    THEN IF min_price_diff > max_price_diff
         THEN \* random.randint raises ValueError: the except branch
              { Outcome(row.price, CalcErrorMsg, None) }
         ELSE FarBelowBranch(row, min_price_diff, max_price_diff)
    ELSE IF Lt(row.price, row.stop)
    THEN BelowStopBranch(row)
    ELSE IF row.holder \in my_market
    THEN { Outcome(row.price, OwnShopMsg, None) }
    ELSE NormalBranch(row, min_price_diff, max_price_diff)

\* ------------------------------------------------------------ dataframes
\* a dataframe is a sequence of rows; a row has the columns
\* SHOP_SKU, MERCH_PRICE_WITH_PROMOS, PRICE_VALUE_ON_MARKET, STOP,
\* SHOP_WITH_BEST_PRICE_ON_MARKET, PRIM and, inside the decision step,
\* old_price and discount_base
Row(sku, price, mp, stop, holder, prim) ==
    [sku |-> sku, price |-> price, mp |-> mp, stop |-> stop, holder |-> holder,
     prim |-> prim, old_price |-> NaN, discount_base |-> NaN]

Idx(df) == 1..Len(df)

RECURSIVE Pick(_, _, _)
Pick(df, keep, n) ==
    IF n = 0 THEN <<>>
    ELSE IF keep[n] THEN Append(Pick(df, keep, n - 1), df[n])
                    ELSE Pick(df, keep, n - 1)
\* df[keep]: the rows of df at which the boolean mask holds, in order
Select(df, keep) == Pick(df, keep, Len(df))

Count(keep) == Cardinality({ i \in DOMAIN keep : keep[i] })

\* updated_df after the numeric coercion and the empty-stop note
Prepare(df) ==
    [i \in Idx(df) |->
        LET r == [df[i] EXCEPT !.prim = "", !.old_price = df[i].price,
                               !.discount_base = NaN,
                               !.price = to_numeric(@), !.mp = to_numeric(@),
                               !.stop = to_numeric(@)]
        IN IF isna(r.stop) THEN [r EXCEPT !.prim = EmptyStopMsg] ELSE r]

empty_stop_mask(u) == [i \in Idx(u) |-> isna(u[i].stop)]
nan_mask(u) == [i \in Idx(u) |-> isna(u[i].price) \/ isna(u[i].mp) \/ isna(u[i].stop)]

\* mutant of mask: the rows without a stop are not masked out
mask_all_rows(u) == [i \in Idx(u) |-> TRUE]

\* (price > mp) & (mp > stop) & (price < stop) | (~empty_stop_mask):
\* & binds tighter than |
mask(u) ==
    [i \in Idx(u) |->
        (Gt(u[i].price, u[i].mp) /\ Gt(u[i].mp, u[i].stop) /\ Lt(u[i].price, u[i].stop))
        \/ ~empty_stop_mask(u)[i]]

failed_conditions_mask(u) ==
    [i \in Idx(u) |-> ~mask(u)[i] /\ ~empty_stop_mask(u)[i] /\ ~nan_mask(u)[i]]

NoOutcome == Outcome(NaN, "", None)

\* the results asyncio.gather can return for the rows of updated_df[mask]:
\* one outcome of calculate_new_price per masked row
RECURSIVE Draws(_, _, _, _, _)
Draws(u, n, my_market, min_price_diff, max_price_diff) ==
    IF n = 0 THEN { <<>> }
    ELSE { Append(s, o) :
             s \in Draws(u, n - 1, my_market, min_price_diff, max_price_diff),
             o \in IF mask(u)[n]
                   THEN calculate_new_price(u[n], my_market, min_price_diff, max_price_diff)
                   ELSE { NoOutcome } }

price_changed(u, res) == [i \in Idx(u) |-> mask(u)[i] /\ Ne(res[i].price, u[i].price)]

\* updated_df.loc[mask & price_changed, 'discount_base'] = [db ... if changed and
\* db is not None]: a list shorter than the selection raises ValueError
DiscountListMismatch(u, res) ==
    Count([i \in Idx(u) |-> price_changed(u, res)[i] /\ res[i].db # None])
        # Count(price_changed(u, res))

\* mutant of NoChangeRows: the unchanged rows are not collected
NoChangeRowsDropped(u, u2, res) == <<>>

\* updated_df[mask & ~price_changed]: the rows whose price was left as it was
NoChangeRows(u, u2, res) ==
    Select(u2, [i \in Idx(u) |-> mask(u)[i] /\ ~price_changed(u, res)[i]])

\* the rows the final loop marks: market price at or below the stop
mp_below_stop(u) == [i \in Idx(u) |-> Le(u[i].mp, u[i].stop)]

\* the decision over a dataframe for one draw of the random source
compare_result(df, res) ==
    LET u1 == Prepare(df)
        changed == price_changed(u1, res)
        any == \E i \in Idx(u1) : mask(u1)[i]
        failed3 == [i \in Idx(u1) |-> [u1[i] EXCEPT !.prim = FailedConditionsMsg]]
        u2 == [i \in Idx(u1) |->
                 IF mask(u1)[i]
                 THEN [u1[i] EXCEPT !.price = res[i].price, !.prim = res[i].prim]
                 ELSE u1[i]]
        u3 == [i \in Idx(u1) |->
                 IF changed[i] THEN [u2[i] EXCEPT !.discount_base = res[i].db]
                               ELSE u2[i]]
        u4 == [i \in Idx(u1) |->
                 IF mp_below_stop(u3)[i] THEN [u3[i] EXCEPT !.prim = MpBelowStopMsg]
                                         ELSE u3[i]]
    IN IF any /\ DiscountListMismatch(u1, res)
       THEN [raised |-> TRUE, updated_df |-> <<>>, for_update |-> <<>>,
             failed_attempts |-> <<>>]
       ELSE [raised |-> FALSE,
             updated_df |-> [i \in Idx(u4) |->
                               [u4[i] EXCEPT !.old_price = NaN, !.discount_base = NaN]],
             for_update |-> Select(u4, changed),
             failed_attempts |->
                 Select(u1, empty_stop_mask(u1)) \o Select(u1, nan_mask(u1))
                 \o Select(failed3, failed_conditions_mask(u1))
                 \o NoChangeRows(u1, u2, res)
                 \o Select(u4, mp_below_stop(u3))]

\* every result compare_prices_and_create_for_update can compute for df
\* (before the audit writes)
compare_prices(df, my_market, min_price_diff, max_price_diff) ==
    { compare_result(df, res) :
        res \in Draws(Prepare(df), Len(df), my_market, min_price_diff, max_price_diff) }

\* ------------------------------------------------------------------ merge
\* a SHOP_SKU text: `pad` surrounding blanks, `zeros` leading zeros, then the
\* text numbered `id`, which is all digits when `digits`
Sku(id, zeros, pad, digits) == [id |-> id, zeros |-> zeros, pad |-> pad, digits |-> digits]

\* strip(), then str(int(.)) when the text is all digits
standardize_shop_sku(s) ==
    [s EXCEPT !.pad = 0, !.zeros = IF s.digits THEN 0 ELSE @]

Standardized(df) == [i \in Idx(df) |-> [df[i] EXCEPT !.sku = standardize_shop_sku(@)]]

\* mutant of first_seen: keep='last'
last_seen(df) == [i \in Idx(df) |-> \A j \in (i + 1)..Len(df) : df[j].sku # df[i].sku]

\* drop_duplicates(subset=['SHOP_SKU'], keep='first')
first_seen(df) == [i \in Idx(df) |-> \A j \in 1..(i - 1) : df[j].sku # df[i].sku]
\* mutant of drop_duplicates: every row is kept
keep_duplicates(df) == df

drop_duplicates(df) == Select(df, first_seen(df))

\* mutant of FillNum: the market value is taken, missing or not
TakeNew(new, old) == new

\* fillna of a text column; "nan" is the missing text
FillText(new, old) == IF new = "nan" THEN old ELSE new
FillNum(new, old) == IF isna(new) THEN old ELSE new

\* the columns of column_names that update_dataframe may take from df2
\* (OFFER and LINK are not part of a model row)
mapped_columns == {"price", "stop", "mp", "holder", "prim"}
\* what COLUMNS_TO_KEEP leaves of them in the market report
report_columns == {"price", "mp", "holder"}

\* one row of the outer merge: col_new.fillna(col) for each update column, the
\* other columns are the left row's
MergedRow(left, right, update_columns) ==
    [left EXCEPT !.price = IF "price" \in update_columns THEN FillNum(right.price, @) ELSE @,
                 !.mp = IF "mp" \in update_columns THEN FillNum(right.mp, @) ELSE @,
                 !.stop = IF "stop" \in update_columns THEN FillNum(right.stop, @) ELSE @,
                 !.holder = IF "holder" \in update_columns THEN FillText(right.holder, @) ELSE @,
                 !.prim = IF "prim" \in update_columns THEN FillText(right.prim, @) ELSE @]

\* the left side of a key only the market report has
MissingLeft(sku) == Row(sku, NaN, NaN, NaN, "nan", "nan")

\* position of a key in the sorted key order of the outer merge
SkuRank(s) == s.id * 4 + s.zeros
KeysOf(df) == { df[i].sku : i \in Idx(df) }

RECURSIVE SortedKeys(_)
SortedKeys(keys) ==
    IF keys = {} THEN <<>>
    ELSE LET k == CHOOSE x \in keys : \A y \in keys : SkuRank(x) <= SkuRank(y)
         IN <<k>> \o SortedKeys(keys \ {k})

\* the rows pd.merge(how='outer') yields for one key
RowsOfKey(d1, d2, k, update_columns) ==
    LET lefts == Select(d1, [i \in Idx(d1) |-> d1[i].sku = k])
        rights == Select(d2, [i \in Idx(d2) |-> d2[i].sku = k])
        left == IF lefts = <<>> THEN MissingLeft(k) ELSE lefts[1]
    IN IF rights = <<>> THEN <<left>>
       ELSE [j \in Idx(rights) |-> MergedRow(left, rights[j], update_columns)]

RECURSIVE Concat(_, _, _, _, _)
Concat(d1, d2, keys, n, update_columns) ==
    IF n = 0 THEN <<>>
    ELSE Concat(d1, d2, keys, n - 1, update_columns)
            \o RowsOfKey(d1, d2, keys[n], update_columns)

\* df2_columns: the columns df2 has
update_dataframe(df1, df2, df2_columns) ==
    LET d1 == drop_duplicates(Standardized(df1))
        d2 == Standardized(df2)
        update_columns == mapped_columns \cap df2_columns
        keys == SortedKeys(KeysOf(d1) \cup KeysOf(d2))
    IN drop_duplicates(Concat(d1, d2, keys, Len(keys), update_columns))

\* ------------------------------------------------------------ audit store
\* the tuple INSERTed into price_change_history for a row of for_update
HistoryEntry(row, at) ==
    [sku |-> row.sku, old_price |-> row.old_price, new_price |-> row.price,
     mp |-> row.mp, stop |-> row.stop, discount_base |-> row.discount_base,
     reason |-> row.prim, at |-> at]

\* the tuple INSERTed into failed_price_change_attempts
FailedEntry(row, at) ==
    [sku |-> row.sku, current_price |-> row.price, mp |-> row.mp, stop |-> row.stop,
     reason |-> row.prim, holder |-> row.holder, at |-> at]

\* float(row['old_price']) raises on a text that is no number
InsertRaises(changes_df, is_successful) ==
    is_successful /\ \E i \in Idx(changes_df) : changes_df[i].old_price = Bad

Entries(changes_df, is_successful, at) ==
    [i \in Idx(changes_df) |->
        IF is_successful THEN HistoryEntry(changes_df[i], at)
                         ELSE FailedEntry(changes_df[i], at)]

\* mutant of Committed: the call replaces the rows of the table
CommittedReplacing(table, changes_df, is_successful, at) ==
    Entries(changes_df, is_successful, at)

\* the table after one committed call: the inserted tuples follow the old ones
Committed(table, changes_df, is_successful, at) ==
    table \o Entries(changes_df, is_successful, at)

\* the tuples a call has inserted when its n-th INSERT, or the conversion of
\* the values of its n-th row, raises
InsertedBefore(changes_df, is_successful, at, n) ==
    SubSeq(Entries(changes_df, is_successful, at), 1, n - 1)

\* the row at which float(row['old_price']) raises
FirstRefused(changes_df) ==
    CHOOSE i \in Idx(changes_df) :
        /\ changes_df[i].old_price = Bad
        /\ \A j \in 1..(i - 1) : changes_df[j].old_price # Bad

\* mutant of RolledBack: every INSERT is committed as it is executed
AutoCommitted(table, inserted) == table \o inserted

\* the table after a call that raised: conn.commit() follows the loop and
\* was not reached, so the inserted tuples are gone with the connection
RolledBack(table, inserted) == table

\* --------------------------------------------------------------- dispatch
\* asyncio.Semaphore(4)
SemaphoreSlots == 4

\* mutant of IntDiscountBase: the default of the except branch is not 0
IntDiscountBaseOtherDefault(db) == IF IsNum(db) THEN PyInt(db) ELSE 1

\* int(discount_base), 0 on ValueError: the value of the column is a number,
\* NaN or a text that is no integer
IntDiscountBase(db) == IF IsNum(db) THEN PyInt(db) ELSE 0

\* mutant of Payload: the request carries the price the row had before
PayloadOldPrice(row) ==
    [offerId |-> row.sku, value |-> row.old_price, currencyId |-> "RUR",
     discountBase |-> IntDiscountBase(row.discount_base)]

Payload(row) ==
    [offerId |-> row.sku, value |-> row.price, currencyId |-> "RUR",
     discountBase |-> IntDiscountBase(row.discount_base)]

\* how send_request can end; every one is logged and none is raised
SendOutcomes == {"success", "business_error", "http_error", "json_error", "network_error"}
\* mutant of SendRaises: a network error is not caught in send_request
SendRaisesNetworkError(outcome) == outcome = "network_error"

SendRaises(outcome) == FALSE

\* what send_request leaves of an outcome: an info line or an error line
LogLevel(outcome) == IF outcome = "success" THEN "info" ELSE "error"

\* mutant of Retry: a request that did not succeed is sent again
RetryOnError(outcome) == outcome # "success"

\* send_request posts once and returns whatever the outcome
Retry(outcome) == FALSE

NewTask(row) == [st |-> "created", res |-> "none", sends |-> 0, payload |-> Payload(row)]

\* ------------------------------------------------------------------ state
Tenants == {1, 2}
\* the calls of shutdown(): from the signal handler and from main's finally
Coordinators == {"signal", "final"}

VARIABLES
    pc,                 \* per tenant: position in process_marketplace_data
    cycle,              \* per tenant: number of the current cycle
    shutdown,           \* is_running = False and shutdown_event set
    coord,              \* per shutdown() call: how far the call has got
    DEBUG,              \* the dry-run flag
    cfg,                \* per tenant: MarketplaceConfig
    cycle_seconds,      \* per tenant: the seconds each of its cycles takes
    sleep_time,         \* per tenant: the timeout of the wait after a cycle
    sheets_flag,        \* per tenant: the own-listing fetch succeeded
    df_from_sheets,     \* per tenant: own-listing dataset
    ym_report_df,       \* per tenant: market report
    current_time,       \* per tenant: the local current_time is bound
    updated_df,         \* per tenant: merged dataset
    updated_df_final,   \* per tenant: post-decision dataset
    for_update_df,      \* per tenant: rows with a changed price
    failed_attempts_df, \* per tenant: rows collected for the failed table
    price_change_history,           \* per tenant store: table
    failed_price_change_attempts,   \* per tenant store: table
    sheet,              \* per tenant: what the spreadsheet ranges hold
    tasks,              \* per tenant: request tasks of the dispatch call
    semaphore,          \* per tenant: free slots of the call's semaphore
    logged,             \* per tenant: payloads logged in dry-run
    result,             \* per tenant: what the last cycle returned
    steps               \* per tenant: the steps the current cycle has taken

vars == <<pc, cycle, shutdown, coord, DEBUG, cfg, cycle_seconds, sleep_time, sheets_flag, df_from_sheets,
          ym_report_df, current_time, updated_df, updated_df_final, for_update_df, failed_attempts_df,
          price_change_history, failed_price_change_attempts, sheet, tasks,
          semaphore, logged, result, steps>>

signal == <<shutdown, coord>>
config == <<DEBUG, cfg, cycle_seconds>>
store == <<price_change_history, failed_price_change_attempts>>
fetched == <<sheets_flag, df_from_sheets, ym_report_df, current_time>>
decided == <<updated_df_final, for_update_df, failed_attempts_df>>
calls == <<tasks, semaphore, logged>>

NoResult == [status |-> "none", error |-> ""]
Success == [status |-> "success", error |-> ""]
Error(why) == [status |-> "error", error |-> why]
\* process_yandex_market_data raised instead of returning
Raised(why) == [status |-> "raised", error |-> why]

Goto(t, l) == pc' = [pc EXCEPT ![t] = l]
Step(t, l) == steps' = [steps EXCEPT ![t] = Append(@, l)]
\* mutant of Fail: the error of a cycle ends the task of the tenant
FailStopsTask(t, why) == /\ Goto(t, "stopped")
                         /\ result' = [result EXCEPT ![t] = Error(why)]

\* the except branch of process_yandex_market_data: the cycle returns an error
Fail(t, why) == /\ Goto(t, "after_cycle")
                /\ result' = [result EXCEPT ![t] = Error(why)]

\* ----------------------------------------------------------------- inputs
\* what the two fetches can return in the cycle specification
own == "own"
rival == "rival"
Sku1 == Sku(1, 0, 0, TRUE)
Sku2 == Sku(2, 0, 0, TRUE)
Sku3 == Sku(3, 0, 0, FALSE)

\* price above the market price above the stop: the normal adjustment
RowNormal(sku) == Row(sku, Whole(4), Whole(2), Whole(0), rival, "")
RowNoStop(sku) == Row(sku, Whole(4), Whole(2), NaN, rival, "")
RowOwnShop(sku) == Row(sku, Whole(4), Whole(2), Whole(0), own, "")
RowBadMp(sku) == Row(sku, Whole(4), Bad, Whole(0), rival, "")
RowBadPrice(sku) == Row(sku, Bad, Whole(2), Whole(0), rival, "")
RowBlank(sku) == Row(sku, Bad, NaN, NaN, "nan", "")
\* a market-report row: no STOP and no PRIM column
RowReport(sku, price, mp, holder) == Row(sku, price, mp, NaN, holder, "nan")

SheetData(t) ==
    IF cfg[t].sample_spreadsheet_id = "listing_a"
    THEN { <<RowNormal(Sku1), RowNoStop(Sku2)>>,
           <<RowOwnShop(Sku1), RowBadMp(Sku3)>>,
           <<RowNormal(Sku1), RowBadPrice(Sku3)>>,
           <<RowNormal(Sku1), RowOwnShop(Sku3)>>,
           <<RowNormal(Sku1), RowNormal(Sku2)>>,
           <<RowBlank(Sku3)>> }
    ELSE { <<RowNormal(Sku1)>> }

ReportData(t) ==
    IF cfg[t].sample_spreadsheet_id = "listing_a"
    THEN { <<RowReport(Sku1, Whole(4), Whole(2), "nan"),
             RowReport(Sku2, Whole(4), Whole(2), "nan")>> }
    ELSE { <<RowReport(Sku1, Whole(4), Whole(2), rival),
             RowReport(Sku2, Whole(4), Whole(2), rival)>> }

\* int(update_interval_minutes) of the constructor: the configured number
\* of minutes, in units of 1/Scale, loses its fraction
int_minutes(raw) ==
    IF raw >= 0 THEN (raw \div Scale) * Scale ELSE 0 - (((0 - raw) \div Scale) * Scale)

\* math.ceil of a number of minutes in units of 1/Scale: whole minutes
ceil(v) == 0 - ((0 - v) \div Scale)

max(a, b) == IF a >= b THEN a ELSE b

\* mutant of compute_sleep_time: the difference is not clamped at zero
sleep_time_unclamped(update_interval_minutes, processing_time) ==
    ceil(update_interval_minutes) * 60 - processing_time

\* sleep_time = max(0, math.ceil(config.update_interval_minutes) * 60
\*                     - processing_time)
compute_sleep_time(update_interval_minutes, processing_time) ==
    max(0, ceil(update_interval_minutes) * 60 - processing_time)

\* MarketplaceConfig: an absent parameter is the empty text
MarketplaceConfig(sample_spreadsheet_id, market_name, api_yandex_market, mn, mx) ==
    [sample_spreadsheet_id |-> sample_spreadsheet_id, market_name |-> market_name,
     api_yandex_market |-> api_yandex_market,
     update_interval_minutes |-> int_minutes(Scale),
     my_market |-> {own}, min_price_diff |-> mn, max_price_diff |-> mx]

Config == MarketplaceConfig("listing_a", "market", "key", 2, 3)
\* a tenant whose listing holds one row
ConfigSmall == MarketplaceConfig("listing_b", "market", "key", 2, 3)
\* MARKET_NAME is missing in the configuration file
ConfigNoName == MarketplaceConfig("listing_b", "", "key", 2, 3)
\* API_YANDEX_MARKET is missing in the configuration file
ConfigNoKey == MarketplaceConfig("listing_b", "market", "", 2, 3)

\* has_user_config(): api key, business id and range are present
has_user_config(c) == c.api_yandex_market # ""
\* the validation at the head of process_yandex_market_data
RequiredPresent(c) ==
    c.sample_spreadsheet_id # "" /\ c.market_name # "" /\ c.api_yandex_market # ""

CycleCap(t) == MaxCycles

\* ------------------------------------------------------------ the cycle
\* mutant of shutdown_event_is_set: the loop does not look at the event
shutdown_event_ignored == FALSE

\* shutdown_event.is_set(), with is_running cleared by the same call
shutdown_event_is_set == shutdown

\* while is_running and not shutdown_event.is_set(): start a cycle
LoopCheck(t) ==
    /\ pc[t] = "loop"
    /\ IF shutdown_event_is_set
       THEN /\ Goto(t, "stopped")
            /\ UNCHANGED <<cycle, fetched, updated_df, decided, calls, steps>>
       ELSE /\ cycle[t] < CycleCap(t)
            /\ Goto(t, "fetch_sheets")
            /\ cycle' = [cycle EXCEPT ![t] = @ + 1]
            /\ sheets_flag' = [sheets_flag EXCEPT ![t] = FALSE]
            /\ df_from_sheets' = [df_from_sheets EXCEPT ![t] = <<>>]
            /\ ym_report_df' = [ym_report_df EXCEPT ![t] = <<>>]
            /\ current_time' = [current_time EXCEPT ![t] = FALSE]
            /\ updated_df' = [updated_df EXCEPT ![t] = <<>>]
            /\ updated_df_final' = [updated_df_final EXCEPT ![t] = <<>>]
            /\ for_update_df' = [for_update_df EXCEPT ![t] = <<>>]
            /\ failed_attempts_df' = [failed_attempts_df EXCEPT ![t] = <<>>]
            /\ tasks' = [tasks EXCEPT ![t] = <<>>]
            /\ semaphore' = [semaphore EXCEPT ![t] = 0]
            /\ logged' = [logged EXCEPT ![t] = <<>>]
            /\ steps' = [steps EXCEPT ![t] = <<>>]
    /\ UNCHANGED <<signal, config, sleep_time, store, sheet, result>>

\* what get_sheet_data can do: return the listing, raise, or return no
\* dataset at all
SheetOutcomes == {"dataset", "raises", "none"}

\* save_debug_csv(df, ...) raises when it calls to_csv on no dataset
save_debug_csv_raises(outcome) == DEBUG /\ outcome = "none"

\* the head of process_yandex_market_data and the own-listing try block:
\* configuration check, get_sheet_data, sheets_flag, current_time,
\* save_debug_csv; an exception of the block is logged and swallowed
FetchSheets(t) ==
    /\ pc[t] = "fetch_sheets"
    /\ IF ~has_user_config(cfg[t])
       THEN \* the cycle is skipped: results stays empty
            /\ Goto(t, "after_cycle")
            /\ result' = [result EXCEPT ![t] = NoResult]
            /\ UNCHANGED <<fetched, steps>>
       ELSE IF ~RequiredPresent(cfg[t])
       THEN \* raise ValueError, before the try block
            /\ Goto(t, "after_cycle")
            /\ result' = [result EXCEPT ![t] = Raised("config")]
            /\ UNCHANGED <<fetched, steps>>
       ELSE /\ Goto(t, "fetch_report")
            /\ Step(t, "fetch_sheets")
            /\ \E outcome \in SheetOutcomes :
                  /\ df_from_sheets' \in
                        { [df_from_sheets EXCEPT ![t] = df] :
                            df \in IF outcome = "dataset" THEN SheetData(t) ELSE { <<>> } }
                  /\ sheets_flag' = [sheets_flag EXCEPT ![t] =
                        outcome # "raises" /\ ~save_debug_csv_raises(outcome)]
                  /\ current_time' = [current_time EXCEPT ![t] = outcome # "raises"]
            /\ UNCHANGED <<ym_report_df, result>>
    /\ UNCHANGED <<cycle, signal, config, sleep_time, updated_df, decided, store, sheet, calls>>

\* dropna(subset=['PRICE_VALUE_ON_MARKET'])
dropna(df) == Select(df, [i \in Idx(df) |-> ~isna(df[i].mp)])

\* mutant of OnReportError: the cycle goes on as if a report had been fetched
OnReportErrorGoesOn(t) ==
    /\ Goto(t, IF sheets_flag[t] THEN "merge" ELSE "seed_write")
    /\ UNCHANGED result

\* except Exception: ym_flag = False, log, raise; the outer except branch
\* returns the error result
OnReportError(t) == Fail(t, "report")

\* generate_price_report: the job is started, or no report_info, or an error
GenerateOutcomes == {"started", "no_report_info", "raises"}

\* get_yandex_market_report up to its polling loop
StartReport(t) ==
    /\ pc[t] = "fetch_report"
    /\ \E outcome \in GenerateOutcomes :
          IF outcome = "started"
          THEN /\ Goto(t, "poll_wait")
               /\ Step(t, "fetch_report")
               /\ UNCHANGED result
          ELSE \* None has no .columns, or the error itself: except, raise
               /\ OnReportError(t)
               /\ steps' = [steps EXCEPT ![t] = @ \o <<"fetch_report", outcome>>]
    /\ UNCHANGED <<cycle, signal, config, sleep_time, fetched, updated_df, decided, store, sheet,
                   calls>>

\* await asyncio.sleep(10) at the head of the polling loop is over
PollWait(t) ==
    /\ pc[t] = "poll_wait"
    /\ Goto(t, "poll_report")
    /\ UNCHANGED <<cycle, signal, config, sleep_time, fetched, updated_df, decided, store, sheet,
                   calls, result, steps>>

\* how the polling loop and the download can end
JobOutcomes == {"DONE", "FAILED", "NO_DATA", "no_status_info", "no_content", "raises"}
\* what one poll can see: an end, or a status that is none of DONE, FAILED,
\* NO_DATA, which keeps the loop polling
PollOutcomes == JobOutcomes \cup {"generating"}

\* mutant of current_time_unbound: current_time is bound before the try block
current_time_always_bound(t) == FALSE

\* save_debug_csv(ym_report_df, f"...{current_time}...") names a local that
\* is bound only when get_sheet_data returned
current_time_unbound(t) == ~current_time[t]

\* check_report_status in the polling loop; DONE is followed by the download,
\* the column filter, dropna and save_debug_csv
PollReport(t) ==
    /\ pc[t] = "poll_report"
    /\ \E outcome \in PollOutcomes :
          IF outcome = "generating"
          THEN /\ Goto(t, "poll_wait")
               /\ UNCHANGED <<ym_report_df, result, steps>>
          ELSE IF outcome = "DONE"
          THEN \E df \in ReportData(t) :
                  /\ ym_report_df' = [ym_report_df EXCEPT ![t] = dropna(df)]
                  /\ IF current_time_unbound(t)
                     THEN /\ Fail(t, "current_time")
                          /\ UNCHANGED steps
                     ELSE /\ Goto(t, IF sheets_flag[t] THEN "merge" ELSE "seed_write")
                          /\ UNCHANGED <<result, steps>>
          ELSE /\ OnReportError(t)
               /\ Step(t, outcome)
               /\ UNCHANGED ym_report_df
    /\ UNCHANGED <<cycle, signal, config, sleep_time, sheets_flag, df_from_sheets, current_time,
                   updated_df, decided, store, sheet, calls>>

\* first_write_df: the report with placeholder PRIM, LINK and STOP columns
first_write_df(df) ==
    [i \in Idx(df) |-> [df[i] EXCEPT !.stop = Bad, !.prim = "no value"]]

\* the own listing is missing: the report alone is written as the listing
SeedWrite(t) ==
    /\ pc[t] = "seed_write"
    /\ Step(t, "seed_write")
    /\ \/ sheet' = [sheet EXCEPT ![t].listing = first_write_df(ym_report_df[t])]
       \/ UNCHANGED sheet
    /\ Goto(t, "after_cycle")
    /\ result' = [result EXCEPT ![t] = NoResult]
    /\ UNCHANGED <<cycle, signal, config, sleep_time, fetched, updated_df, decided, store, calls>>

\* df_from_sheets.iloc[1:], update_dataframe; no dataset has no .iloc
Merge(t) ==
    /\ pc[t] = "merge"
    /\ Step(t, "merge")
    /\ IF df_from_sheets[t] = <<>>
       THEN /\ Fail(t, "merge")
            /\ UNCHANGED updated_df
       ELSE /\ updated_df' = [updated_df EXCEPT ![t] =
                               update_dataframe(df_from_sheets[t], ym_report_df[t],
                                                report_columns)]
            /\ Goto(t, "compare")
            /\ UNCHANGED result
    /\ UNCHANGED <<cycle, signal, config, sleep_time, fetched, decided, store, sheet, calls>>

\* compare_prices_and_create_for_update up to its audit writes
Compare(t) ==
    /\ pc[t] = "compare"
    /\ Step(t, "decide")
    /\ \E r \in compare_prices(updated_df[t], cfg[t].my_market,
                               cfg[t].min_price_diff, cfg[t].max_price_diff) :
          IF r.raised
          THEN /\ Fail(t, "compare")
               /\ UNCHANGED decided
          ELSE /\ updated_df_final' = [updated_df_final EXCEPT ![t] = r.updated_df]
               /\ for_update_df' = [for_update_df EXCEPT ![t] = r.for_update]
               /\ failed_attempts_df' = [failed_attempts_df EXCEPT ![t] = r.failed_attempts]
               /\ Goto(t, "audit_failed")
               /\ UNCHANGED result
    /\ UNCHANGED <<cycle, signal, config, sleep_time, fetched, updated_df, store, sheet, calls>>

\* mutant of RaiseStorageError: the error is logged and swallowed
SwallowStorageError(t) == Goto(t, "write_back") /\ UNCHANGED result

\* except sqlite3.Error: the error is logged and raised again
RaiseStorageError(t) == Fail(t, "storage")

\* mutant of AfterAudit: the changed rows are dispatched right after the audit
AfterAuditDispatch(t) == IF for_update_df[t] # <<>> THEN "dispatch" ELSE "write_back"

\* the step after the audit writes: the write-back of the final dataset
AfterAudit(t) == "write_back"

\* save_price_changes_to_db(failed_attempts_df, is_successful=False)
AuditFailed(t) ==
    /\ pc[t] = "audit_failed"
    /\ IF failed_attempts_df[t] = <<>>
       THEN /\ Goto(t, "audit_success")
            /\ UNCHANGED <<store, result, steps>>
       ELSE /\ Step(t, "audit_failed")
            /\ \/ /\ failed_price_change_attempts' =
                        [failed_price_change_attempts EXCEPT ![t] =
                            Committed(@, failed_attempts_df[t], FALSE, cycle[t])]
                  /\ Goto(t, "audit_success")
                  /\ UNCHANGED <<price_change_history, result>>
               \/ /\ RaiseStorageError(t)
                  /\ \E n \in Idx(failed_attempts_df[t]) :
                        failed_price_change_attempts' =
                            [failed_price_change_attempts EXCEPT ![t] =
                                RolledBack(@, InsertedBefore(failed_attempts_df[t], FALSE,
                                                             cycle[t], n))]
                  /\ UNCHANGED price_change_history
    /\ UNCHANGED <<cycle, signal, config, sleep_time, fetched, updated_df, decided, sheet, calls>>

\* save_price_changes_to_db(for_update, is_successful=True), then return
AuditSuccess(t) ==
    /\ pc[t] = "audit_success"
    /\ IF for_update_df[t] = <<>>
       THEN /\ Goto(t, AfterAudit(t))
            /\ UNCHANGED <<store, result, steps>>
       ELSE /\ Step(t, "audit_success")
            /\ IF InsertRaises(for_update_df[t], TRUE)
               THEN /\ Fail(t, "compare")
                    /\ price_change_history' =
                          [price_change_history EXCEPT ![t] =
                              RolledBack(@, InsertedBefore(for_update_df[t], TRUE, cycle[t],
                                                           FirstRefused(for_update_df[t])))]
                    /\ UNCHANGED failed_price_change_attempts
               ELSE \/ /\ price_change_history' =
                             [price_change_history EXCEPT ![t] =
                                 Committed(@, for_update_df[t], TRUE, cycle[t])]
                       /\ Goto(t, AfterAudit(t))
                       /\ UNCHANGED <<failed_price_change_attempts, result>>
                    \/ /\ RaiseStorageError(t)
                       /\ \E n \in Idx(for_update_df[t]) :
                             price_change_history' =
                                 [price_change_history EXCEPT ![t] =
                                     RolledBack(@, InsertedBefore(for_update_df[t], TRUE,
                                                                  cycle[t], n))]
                       /\ UNCHANGED failed_price_change_attempts
    /\ UNCHANGED <<cycle, signal, config, sleep_time, fetched, updated_df, decided, sheet, calls>>

\* if not for_update_df.empty: update_price_ym(...)
AfterWriteBack(t) == IF for_update_df[t] # <<>> THEN "dispatch" ELSE "finish"

\* mutant of OnWriteError: the error of the write reaches the caller
WriteErrorRaised(t) == Fail(t, "compare")

\* except HttpError / except Exception in write_sheet_data: the error is
\* logged and None is returned, which the caller does not look at
OnWriteError(t) == Goto(t, AfterWriteBack(t)) /\ UNCHANGED result

\* write_sheet_data(updated_df_final, ...): an error of the write is swallowed
WriteBack(t) ==
    /\ pc[t] = "write_back"
    /\ Step(t, "write_back")
    /\ \/ /\ sheet' = [sheet EXCEPT ![t].final = updated_df_final[t]]
          /\ Goto(t, AfterWriteBack(t))
          /\ UNCHANGED result
       \/ /\ UNCHANGED sheet
          /\ OnWriteError(t)
    /\ UNCHANGED <<cycle, signal, config, sleep_time, fetched, updated_df, decided, store, calls>>

\* ---------------------------------------------------------- update_price_ym
\* mutant of DryRun: the flag is not looked at
DryRunIgnored(debug) == FALSE

\* if debug: log the payload; else: create the task
DryRun(debug) == debug

\* the loop over the rows: a payload per row, logged in dry-run, else a task
DispatchStart(t) ==
    /\ pc[t] = "dispatch"
    /\ semaphore' = [semaphore EXCEPT ![t] = SemaphoreSlots]
    /\ IF DryRun(DEBUG)
       THEN /\ logged' = [logged EXCEPT ![t] =
                            [i \in Idx(for_update_df[t]) |-> Payload(for_update_df[t][i])]]
            /\ tasks' = [tasks EXCEPT ![t] = <<>>]
            /\ steps' = [steps EXCEPT ![t] = @ \o <<"dispatch_start", "dispatch_end">>]
            /\ Goto(t, "finish")
       ELSE /\ tasks' = [tasks EXCEPT ![t] =
                            [i \in Idx(for_update_df[t]) |-> NewTask(for_update_df[t][i])]]
            /\ logged' = [logged EXCEPT ![t] = <<>>]
            /\ Step(t, "dispatch_start")
            /\ Goto(t, "gather")
    /\ UNCHANGED <<cycle, signal, config, sleep_time, fetched, updated_df, decided, store, sheet,
                   result>>

\* mutant of CanAcquire: the slot is taken without waiting for a free one
CanAcquireNoWait(t) == TRUE

\* rate_limited_request: async with semaphore
CanAcquire(t) == semaphore[t] > 0

\* mutant of AfterAcquire: the request is posted as soon as the slot is held
AfterAcquireNoDelay == "send"

\* inside the async with block: await asyncio.sleep(0.25) comes first
AfterAcquire == "sleep"

TaskAcquire(t, i) ==
    /\ pc[t] = "gather"
    /\ tasks[t][i].st = "created"
    /\ CanAcquire(t)
    /\ semaphore' = [semaphore EXCEPT ![t] = @ - 1]
    /\ tasks' = [tasks EXCEPT ![t][i].st = AfterAcquire]
    /\ UNCHANGED <<pc, cycle, signal, config, sleep_time, fetched, updated_df, decided, store, sheet,
                   logged, result, steps>>

\* asyncio.sleep(0.25) is over: send_request posts the request
TaskSend(t, i) ==
    /\ pc[t] = "gather"
    /\ tasks[t][i].st = "sleep"
    /\ tasks' = [tasks EXCEPT ![t][i].st = "send", ![t][i].sends = @ + 1]
    /\ UNCHANGED <<pc, cycle, signal, config, sleep_time, fetched, updated_df, decided, store, sheet,
                   semaphore, logged, result, steps>>

\* mutant of Released: a request that failed keeps its slot
ReleasedOnSuccess(outcome) == IF outcome = "success" THEN 1 ELSE 0

\* the slots given back when the async with block is left, however
\* send_request has ended
Released(outcome) == 1

\* send_request ends; leaving the async with block releases the slot
TaskComplete(t, i) ==
    /\ pc[t] = "gather"
    /\ tasks[t][i].st = "send"
    /\ \E outcome \in SendOutcomes :
          IF Retry(outcome)
          THEN /\ tasks' = [tasks EXCEPT ![t][i].st = "sleep", ![t][i].res = LogLevel(outcome)]
               /\ UNCHANGED semaphore
          ELSE /\ tasks' = [tasks EXCEPT ![t][i].st = IF SendRaises(outcome) THEN "raised" ELSE "done",
                                         ![t][i].res = LogLevel(outcome)]
               /\ semaphore' = [semaphore EXCEPT ![t] = @ + Released(outcome)]
    /\ UNCHANGED <<pc, cycle, signal, config, sleep_time, fetched, updated_df, decided, store, sheet,
                   logged, result, steps>>

\* await asyncio.gather(*tasks): returns when every task is done, raises the
\* first exception a task raised
DispatchReturn(t) ==
    /\ pc[t] = "gather"
    /\ IF \E i \in Idx(tasks[t]) : tasks[t][i].st = "raised"
       THEN /\ Fail(t, "dispatch")
            /\ UNCHANGED steps
       ELSE /\ \A i \in Idx(tasks[t]) : tasks[t][i].st = "done"
            /\ Goto(t, "finish")
            /\ Step(t, "dispatch_end")
            /\ UNCHANGED result
    /\ UNCHANGED <<cycle, signal, config, sleep_time, fetched, updated_df, decided, store, sheet,
                   calls>>

\* return {'status': 'success', ...}
Finish(t) ==
    /\ pc[t] = "finish"
    /\ Goto(t, "after_cycle")
    /\ result' = [result EXCEPT ![t] = Success]
    /\ UNCHANGED <<cycle, signal, config, sleep_time, fetched, updated_df, decided, store, sheet,
                   calls, steps>>

\* --------------------------------------------------------- the scheduler
\* if shutdown_event.is_set(): break; else compute the sleep time
AfterCycle(t) ==
    /\ pc[t] = "after_cycle"
    /\ Goto(t, IF shutdown_event_is_set THEN "stopped" ELSE "sleep")
    /\ sleep_time' = [sleep_time EXCEPT ![t] =
            IF shutdown_event_is_set THEN @
            ELSE compute_sleep_time(cfg[t].update_interval_minutes,
                                    cycle_seconds[t][cycle[t]])]
    /\ UNCHANGED <<cycle, signal, config, fetched, updated_df, decided, store, sheet,
                   calls, result, steps>>

\* mutant of AfterTimeout: the sleep is followed by a cycle without the test
\* of the loop condition
AfterTimeoutRunsCycle == "fetch_sheets"

\* except asyncio.TimeoutError: continue, which leads to the loop condition
AfterTimeout == "loop"

\* wait_for(shutdown_event.wait(), timeout) times out: continue
SleepTimeout(t) ==
    /\ pc[t] = "sleep"
    /\ ~shutdown
    /\ Goto(t, AfterTimeout)
    /\ UNCHANGED <<cycle, signal, config, sleep_time, fetched, updated_df, decided, store, sheet,
                   calls, result, steps>>

\* the wait returns because the event is set: break
SleepWake(t) ==
    /\ pc[t] = "sleep"
    /\ shutdown
    /\ Goto(t, "stopped")
    /\ UNCHANGED <<cycle, signal, config, sleep_time, fetched, updated_df, decided, store, sheet,
                   calls, result, steps>>

\* except asyncio.CancelledError / finally: the cancelled task ends; the
\* cancelled gather has cancelled the request tasks that were not done
OnCancelled(t) ==
    /\ pc[t] = "cancelled"
    /\ Goto(t, "stopped")
    /\ tasks' = [tasks EXCEPT ![t] =
                    [i \in Idx(@) |-> IF @[i].st = "done" THEN @[i]
                                      ELSE [@[i] EXCEPT !.st = "cancelled"]]]
    /\ UNCHANGED <<cycle, signal, config, sleep_time, fetched, updated_df, decided, store, sheet,
                   semaphore, logged, result, steps>>

\* active_tasks: the tenant tasks that are not done
active_tasks == { t \in Tenants : pc[t] # "stopped" }

\* the first statements of shutdown(): is_running = False,
\* shutdown_event.set(), and the wait for the active tasks is started
BeginShutdown(c) ==
    /\ shutdown' = TRUE
    /\ coord' = [coord EXCEPT ![c] = IF active_tasks # {} THEN "grace" ELSE "done"]

\* a termination signal: handle_shutdown starts shutdown(signal_name)
Shutdown ==
    /\ ~shutdown
    /\ BeginShutdown("signal")
    /\ UNCHANGED <<pc, cycle, config, sleep_time, fetched, updated_df, decided, store, sheet, calls,
                   result, steps>>

\* main leaves its loop because is_running is False; finally: if active_tasks:
\* await shutdown("FINAL")
MainFinally ==
    /\ shutdown
    /\ coord["final"] = "idle"
    /\ BeginShutdown("final")
    /\ UNCHANGED <<pc, cycle, config, sleep_time, fetched, updated_df, decided, store, sheet, calls,
                   result, steps>>

\* mutant of remaining_tasks: every tenant task is cancelled after the wait
remaining_all == Tenants

\* remaining_tasks = {t for t in active_tasks if not t.done()}
remaining_tasks == active_tasks

\* asyncio.wait(active_tasks, timeout=30) returns, because every task is done
\* or because the grace period is over; the tasks still not done are cancelled
GraceEnd(c) ==
    /\ coord[c] = "grace"
    /\ pc' = [t \in Tenants |-> IF t \in remaining_tasks THEN "cancelled" ELSE pc[t]]
    /\ coord' = [coord EXCEPT ![c] = IF remaining_tasks # {} THEN "wait_cancel" ELSE "done"]
    /\ UNCHANGED <<cycle, shutdown, config, sleep_time, fetched, updated_df, decided, store, sheet,
                   calls, result, steps>>

\* await asyncio.wait(remaining_tasks) returns: every cancelled task is done
CancelWaitEnd(c) ==
    /\ coord[c] = "wait_cancel"
    /\ active_tasks = {}
    /\ coord' = [coord EXCEPT ![c] = "done"]
    /\ UNCHANGED <<pc, cycle, shutdown, config, sleep_time, fetched, updated_df, decided, store, sheet,
                   calls, result, steps>>

\* ---------------------------------------------------------- specifications
Empty == [t \in Tenants |-> <<>>]

\* cycles that take no measurable time, and no wait armed yet
InitClock ==
    /\ cycle_seconds = [t \in Tenants |-> [n \in 1..MaxCycles |-> 0]]
    /\ sleep_time = [t \in Tenants |-> 0]

InitCommon ==
    /\ InitClock
    /\ shutdown = FALSE
    /\ coord = [c \in Coordinators |-> "idle"]
    /\ DEBUG \in BOOLEAN
    /\ sheets_flag = [t \in Tenants |-> FALSE]
    /\ current_time = [t \in Tenants |-> FALSE]
    /\ df_from_sheets = Empty
    /\ ym_report_df = Empty
    /\ updated_df_final = Empty
    /\ failed_attempts_df = Empty
    /\ failed_price_change_attempts = Empty
    /\ sheet = [t \in Tenants |-> [listing |-> <<>>, final |-> <<>>]]
    /\ tasks = Empty
    /\ semaphore = [t \in Tenants |-> 0]
    /\ logged = Empty
    /\ result = [t \in Tenants |-> NoResult]

\* the program after main() has created the task of the one configured tenant
Init ==
    /\ InitCommon
    /\ pc = [t \in Tenants |-> IF t = 1 THEN "loop" ELSE "stopped"]
    /\ cycle = [t \in Tenants |-> 0]
    /\ cfg = [t \in Tenants |-> Config]
    /\ updated_df = Empty
    /\ for_update_df = Empty
    /\ price_change_history = Empty
    /\ steps = Empty

Cycle(t) ==
    \/ LoopCheck(t) \/ FetchSheets(t) \/ StartReport(t) \/ PollWait(t) \/ PollReport(t)
    \/ SeedWrite(t) \/ Merge(t)
    \/ Compare(t) \/ AuditFailed(t) \/ AuditSuccess(t) \/ WriteBack(t)
    \/ DispatchStart(t) \/ DispatchReturn(t) \/ Finish(t)
    \/ AfterCycle(t) \/ SleepTimeout(t) \/ SleepWake(t) \/ OnCancelled(t)

Requests(t) ==
    \E i \in Idx(tasks[t]) : TaskAcquire(t, i) \/ TaskSend(t, i) \/ TaskComplete(t, i)

Next ==
    \/ \E t \in Tenants : Cycle(t)
    \/ \E t \in Tenants : Requests(t)
    \/ Shutdown
    \/ MainFinally
    \/ \E c \in Coordinators : GraceEnd(c) \/ CancelWaitEnd(c)

Spec == Init /\ [][Next]_vars

\* the program after main() has created the tasks of two tenants read from
\* the configuration file: one with a one-row listing or without a market
\* name, the other with a parameter missing
InitTenants ==
    /\ InitCommon
    /\ pc = [t \in Tenants |-> "loop"]
    /\ cycle = [t \in Tenants |-> 0]
    /\ \E c1 \in {ConfigSmall, ConfigNoName}, c2 \in {ConfigNoName, ConfigNoKey} :
          cfg = [t \in Tenants |-> IF t = 1 THEN c1 ELSE c2]
    /\ updated_df = Empty
    /\ for_update_df = Empty
    /\ price_change_history = Empty
    /\ steps = Empty

SpecTenants == InitTenants /\ [][Next]_vars

\* what the event loop and the timers guarantee: a task that can take a step
\* takes one, a request that can proceed does, the wait of a shutdown() call
\* ends with its timeout or with its tasks; the signal itself may never come
Fairness ==
    /\ \A t \in Tenants : WF_vars(Cycle(t)) /\ WF_vars(Requests(t))
    /\ \A c \in Coordinators : WF_vars(GraceEnd(c)) /\ WF_vars(CancelWaitEnd(c))
    /\ WF_vars(MainFinally)

\* two tenants back at the top of their loops after all but one of the
\* cycles: the first, with a one-row listing, has had both fetches raise, the
\* second, without a market name, has had its configuration refused
InitFair ==
    /\ InitClock
    /\ shutdown = FALSE
    /\ coord = [c \in Coordinators |-> "idle"]
    /\ DEBUG \in BOOLEAN
    /\ cfg = [t \in Tenants |-> IF t = 1 THEN ConfigSmall ELSE ConfigNoName]
    /\ pc = [t \in Tenants |-> "loop"]
    /\ cycle = [t \in Tenants |-> MaxCycles - 1]
    /\ result = [t \in Tenants |-> IF t = 1 THEN Error("report") ELSE Raised("config")]
    /\ steps = [t \in Tenants |->
                   IF t = 1 THEN <<"fetch_sheets", "fetch_report", "raises">> ELSE <<>>]
    /\ sheets_flag = [t \in Tenants |-> FALSE]
    /\ current_time = [t \in Tenants |-> FALSE]
    /\ df_from_sheets = Empty
    /\ ym_report_df = Empty
    /\ updated_df = Empty
    /\ updated_df_final = Empty
    /\ for_update_df = Empty
    /\ failed_attempts_df = Empty
    /\ price_change_history = Empty
    /\ failed_price_change_attempts = Empty
    /\ sheet = [t \in Tenants |-> [listing |-> <<>>, final |-> <<>>]]
    /\ tasks = Empty
    /\ semaphore = [t \in Tenants |-> 0]
    /\ logged = Empty

FairSpec == InitFair /\ [][Next]_vars /\ Fairness

\* ------------------------------------------------ the decision on one row
\* every input row over the price grid, decided by one call of
\* compare_prices_and_create_for_update
\* the prices from 0 to MaxPrice in steps of half a rouble
PriceGrid == { Num(v * (Scale \div 2)) : v \in 0..(2 * MaxPrice) }
CellValues == PriceGrid \cup {NaN, Bad}
\* rows whose market price and stop are off the half-rouble grid
FineRows ==
    { Row(Sku1, Whole(0), Num(2 * Scale + 1), s, rival, "") : s \in {Whole(0), Num(1)} }
InputRows ==
    { Row(Sku1, p, m, s, h, "") :
        p \in CellValues, m \in PriceGrid \cup {NaN}, s \in PriceGrid \cup {NaN},
        h \in {own, rival} }
    \cup FineRows
Deltas == { <<1, 2>>, <<2, 3>> }

InitDecide ==
    /\ InitCommon
    /\ pc = [t \in Tenants |-> IF t = 1 THEN "compare" ELSE "stopped"]
    /\ cycle = [t \in Tenants |-> IF t = 1 THEN 1 ELSE 0]
    /\ \E d \in Deltas :
          cfg = [t \in Tenants |-> MarketplaceConfig("listing_a", "market", "key",
                                                      d[1], d[2])]
    /\ \E row \in InputRows : updated_df = [t \in Tenants |-> IF t = 1 THEN <<row>> ELSE <<>>]
    /\ for_update_df = Empty
    /\ price_change_history = Empty
    /\ steps = [t \in Tenants |-> IF t = 1 THEN <<"fetch_sheets", "fetch_report", "merge">>
                                           ELSE <<>>]

NextDecide == \E t \in Tenants : Compare(t)

SpecDecide == InitDecide /\ [][NextDecide]_vars

\* ------------------------------------------------------ the dispatch call
\* two tenants whose cycles have reached update_price_ym at the same time,
\* each with a batch of changed rows
BatchRow(i) ==
    [Row(Sku(i, 0, 0, TRUE), Whole(1), Whole(2), Whole(0), rival, ChangedMsg)
        EXCEPT !.old_price = Whole(4), !.discount_base = Whole(2)]
Batch(n) == [i \in 1..n |-> BatchRow(i)]
BatchSource(n) == [i \in 1..n |-> RowNormal(Sku(i, 0, 0, TRUE))]
BatchFinal(n) == [i \in 1..n |-> [BatchRow(i) EXCEPT !.old_price = NaN, !.discount_base = NaN]]
BatchSizes(t) == IF t = 1 THEN 1..MaxBatch ELSE {1}
\* the discount_base of the first row of a batch: a number, NaN or a text
BatchBases == {Whole(2), NaN, Bad}
BatchWith(n, db) ==
    [i \in 1..n |-> IF i = 1 THEN [BatchRow(i) EXCEPT !.discount_base = db] ELSE BatchRow(i)]

InitDispatch ==
    /\ InitClock
    /\ shutdown = FALSE
    /\ coord = [c \in Coordinators |-> "idle"]
    /\ DEBUG \in BOOLEAN
    /\ current_time = [t \in Tenants |-> TRUE]
    /\ pc = [t \in Tenants |-> "dispatch"]
    /\ cycle = [t \in Tenants |-> 1]
    /\ cfg = [t \in Tenants |-> Config]
    /\ \E n \in [Tenants -> 1..MaxBatch], db \in BatchBases :
          /\ \A t \in Tenants : n[t] \in BatchSizes(t)
          /\ df_from_sheets = [t \in Tenants |-> BatchSource(n[t])]
          /\ updated_df = [t \in Tenants |-> BatchSource(n[t])]
          /\ updated_df_final = [t \in Tenants |-> BatchFinal(n[t])]
          /\ for_update_df = [t \in Tenants |-> BatchWith(n[t], db)]
          /\ price_change_history =
                [t \in Tenants |-> Committed(<<>>, Batch(n[t]), TRUE, 1)]
          /\ sheet = [t \in Tenants |-> [listing |-> <<>>, final |-> BatchFinal(n[t])]]
    /\ sheets_flag = [t \in Tenants |-> TRUE]
    /\ ym_report_df = Empty
    /\ failed_attempts_df = Empty
    /\ failed_price_change_attempts = Empty
    /\ tasks = Empty
    /\ semaphore = [t \in Tenants |-> 0]
    /\ logged = Empty
    /\ result = [t \in Tenants |-> NoResult]
    /\ steps = [t \in Tenants |-> <<"fetch_sheets", "fetch_report", "merge", "decide",
                                     "audit_success", "write_back">>]

NextDispatch ==
    \/ \E t \in Tenants : DispatchStart(t) \/ DispatchReturn(t) \/ Finish(t)
    \/ \E t \in Tenants : Requests(t)

SpecDispatch == InitDispatch /\ [][NextDispatch]_vars

\* ================================================================ claims
\* requests in flight in one dispatch call: the tasks that hold a slot and
\* have not finished send_request
InFlight(t) ==
    Cardinality({ i \in Idx(tasks[t]) : tasks[t][i].st \in {"sleep", "send"} })
Waiting(t) == { i \in Idx(tasks[t]) : tasks[t][i].st = "created" }

\* C1: in every dispatch call at most 4 requests are in flight, whatever the
\* batch size and the interleaving, and the slots are counted per call: the
\* free slots of a call and its requests in flight add up to 4, independently
\* of the other tenant's call
C1_InFlightBound ==
    \A t \in Tenants :
        /\ InFlight(t) <= SemaphoreSlots
        /\ pc[t] = "gather" => semaphore[t] + InFlight(t) = SemaphoreSlots

\* C1 witness: a call of 5 rows has 4 requests in flight and the fifth waiting
\* while the other tenant's call has a request in flight too (5 in total)
C1_Witness ==
    /\ InFlight(1) = SemaphoreSlots
    /\ Waiting(1) # {}
    /\ InFlight(2) = 1

\* C10: a failed item (network exception, non-200, business error, undecodable
\* body) raises nothing: no task ends with an exception, failed items give
\* their slot back, the call returns only when every item of the batch has
\* completed, and the cycle then ends with success
C10_ItemFailureIsolated ==
    \A t \in Tenants :
        /\ \A i \in Idx(tasks[t]) : tasks[t][i].st # "raised"
        /\ pc[t] = "gather" =>
              semaphore[t] = SemaphoreSlots - InFlight(t)
        /\ (pc[t] \in {"finish", "after_cycle"} /\ ~DEBUG) =>
              /\ Len(tasks[t]) = Len(for_update_df[t])
              /\ \A i \in Idx(tasks[t]) : tasks[t][i].st = "done"
        /\ (pc[t] = "after_cycle" /\ "dispatch_start" \in { steps[t][k] : k \in Idx(steps[t]) }) =>
              result[t] = Success

\* C10 witness: a batch of five whose first four items failed and whose fifth
\* item, sent after them, succeeded, in a cycle that ended with success
C10_Witness ==
    /\ pc[1] = "after_cycle"
    /\ result[1] = Success
    /\ Len(tasks[1]) = 5
    /\ \A i \in 1..4 : tasks[1][i].res = "error"
    /\ tasks[1][5].res = "info"

\* ------------------------------------------------------------------------
StepSet(t) == { steps[t][k] : k \in Idx(steps[t]) }
Rank(order, l) == CHOOSE k \in 1..Len(order) : order[k] = l
\* the steps of seq are taken in the order of `order`
Follows(seq, order) ==
    \A i, j \in Idx(seq) : i < j => Rank(order, seq[i]) < Rank(order, seq[j])
SkusOf(df) == { df[i].sku : i \in Idx(df) }
RowsOf(table) == { table[k] : k \in Idx(table) }
\* the SKUs for which the dispatch call has built a payload
DispatchedSkus(t) ==
    { tasks[t][i].payload.offerId : i \in Idx(tasks[t]) }
        \cup { logged[t][i].offerId : i \in Idx(logged[t]) }
\* the decision step of the current cycle has computed its result
CompareReturned(t) ==
    /\ "decide" \in StepSet(t)
    /\ updated_df[t] # <<>>
    /\ Len(updated_df_final[t]) = Len(updated_df[t])
\* both audit writes of the current cycle are committed
AuditDone(t) ==
    /\ CompareReturned(t)
    /\ \/ pc[t] \in {"write_back", "dispatch", "gather", "finish"}
       \/ pc[t] \in {"after_cycle", "sleep"} /\ result[t] = Success
\* the failed-attempts write of the current cycle is committed
FailedWritten(t) ==
    AuditDone(t) \/ (CompareReturned(t) /\ pc[t] = "audit_success")

StepsClaimed ==
    <<"fetch_sheets", "fetch_report", "merge", "decide", "audit_failed", "audit_success",
      "dispatch_start", "dispatch_end", "write_back">>
StepsAmended ==
    <<"fetch_sheets", "fetch_report", "merge", "decide", "audit_failed", "audit_success",
      "write_back", "dispatch_start", "dispatch_end">>

\* what both readings of C2 share: a step is taken only when the steps before
\* it are over, and requests exist only between the start and the end of the
\* dispatch
StepsSequential(t) ==
    /\ "merge" \in StepSet(t) => {"fetch_sheets", "fetch_report"} \subseteq StepSet(t)
    /\ "decide" \in StepSet(t) => "merge" \in StepSet(t)
    /\ {"audit_failed", "audit_success"} \cap StepSet(t) # {} => "decide" \in StepSet(t)
    /\ "write_back" \in StepSet(t) =>
          /\ CompareReturned(t)
          /\ failed_attempts_df[t] # <<>> => "audit_failed" \in StepSet(t)
          /\ for_update_df[t] # <<>> => "audit_success" \in StepSet(t)
    /\ "dispatch_start" \in StepSet(t) => "audit_success" \in StepSet(t)
    /\ "dispatch_end" \in StepSet(t) =>
          /\ "dispatch_start" \in StepSet(t)
          /\ \A i \in Idx(tasks[t]) : tasks[t][i].st = "done"
    /\ (\E i \in Idx(tasks[t]) : tasks[t][i].st # "created") =>
          "dispatch_start" \in StepSet(t)

C3_ChangedRespectsFloor ==
    \A t \in Tenants :
        \A i \in Idx(for_update_df[t]) :
            LET r == for_update_df[t][i]
            IN /\ r.price # to_numeric(r.old_price)
               /\ IsNum(r.stop) => Ge(r.price, r.stop)

\* the rows of the merged dataset without a floor price
AbsentFloor(t) == { i \in Idx(updated_df[t]) : isna(updated_df[t][i].stop) }

\* C4: a row without a floor price keeps its price, carries the empty-floor
\* reason, is collected for and written to failed_price_change_attempts, is not
\* in the changed rows, has no payload built for it, and price_change_history
\* never holds a row without a floor
C4_AbsentFloorExcluded ==
    \A t \in Tenants :
        /\ \A e \in RowsOf(price_change_history[t]) : ~isna(e.stop)
        /\ CompareReturned(t) =>
              \A i \in AbsentFloor(t) :
                  LET sku == updated_df[t][i].sku
                      f == updated_df_final[t][i]
                  IN /\ f.sku = sku
                     /\ f.price = to_numeric(updated_df[t][i].price)
                     /\ f.prim = EmptyStopMsg
                     /\ sku \notin SkusOf(for_update_df[t])
                     /\ sku \notin DispatchedSkus(t)
                     /\ \E k \in Idx(failed_attempts_df[t]) :
                           /\ failed_attempts_df[t][k].sku = sku
                           /\ failed_attempts_df[t][k].prim = EmptyStopMsg
                     /\ FailedWritten(t) =>
                           \E e \in RowsOf(failed_price_change_attempts[t]) :
                               e.sku = sku /\ e.at = cycle[t] /\ e.reason = EmptyStopMsg

\* C4 witness: a finished cycle with a row without a floor beside a changed row
\* whose request was sent
C4_Witness ==
    /\ pc[1] = "after_cycle"
    /\ result[1] = Success
    /\ CompareReturned(1)
    /\ AbsentFloor(1) # {}
    /\ tasks[1] # <<>>

\* C5 as claimed: a row with three numeric prices that does not satisfy
\* price > market price > floor keeps its price, carries the reason 'does not
\* satisfy price-change conditions' and is collected as a failed attempt
C5_OrderingGate ==
    \A t \in Tenants :
        CompareReturned(t) =>
            \A i \in Idx(updated_df[t]) :
                LET r == updated_df[t][i]
                    f == updated_df_final[t][i]
                IN (IsNum(r.price) /\ IsNum(r.mp) /\ IsNum(r.stop)
                        /\ ~(Gt(r.price, r.mp) /\ Gt(r.mp, r.stop))) =>
                      /\ f.price = r.price
                      /\ f.prim = FailedConditionsMsg
                      /\ r.sku \notin SkusOf(for_update_df[t])
                      /\ \E k \in Idx(failed_attempts_df[t]) :
                            /\ failed_attempts_df[t][k].sku = r.sku
                            /\ failed_attempts_df[t][k].prim = FailedConditionsMsg

\* the rows of the merged dataset with a price that is no number
Unparseable(t) ==
    { i \in Idx(updated_df[t]) :
        Bad \in {updated_df[t][i].price, updated_df[t][i].mp, updated_df[t][i].stop} }

\* C6 as claimed: a row with an unparseable price is not changed, is written
\* to the failed table and to no other place, and the decision step does not
\* end the cycle with an error
C6_UnparseableExcluded ==
    \A t \in Tenants :
        ("decide" \in StepSet(t) /\ pc[t] # "compare") =>
            \A i \in Unparseable(t) :
                LET sku == updated_df[t][i].sku
                IN /\ ~(pc[t] = "after_cycle" /\ result[t] = Error("compare"))
                   /\ sku \notin SkusOf(for_update_df[t])
                   /\ sku \notin DispatchedSkus(t)
                   /\ \A e \in RowsOf(price_change_history[t]) :
                         ~(e.sku = sku /\ e.at = cycle[t])
                   /\ FailedWritten(t) =>
                         \E e \in RowsOf(failed_price_change_attempts[t]) :
                             e.sku = sku /\ e.at = cycle[t]

\* C7: when the decision step has returned, every row of the merged dataset
\* whose price was changed has an entry of this cycle in price_change_history
\* with the new price, and every other row has one in
\* failed_price_change_attempts
C7_EveryRowAudited ==
    \A t \in Tenants :
        AuditDone(t) =>
            \A i \in Idx(updated_df[t]) :
                LET sku == updated_df[t][i].sku
                    f == updated_df_final[t][i]
                IN IF f.price # to_numeric(updated_df[t][i].price)
                   THEN \E e \in RowsOf(price_change_history[t]) :
                           e.sku = sku /\ e.at = cycle[t] /\ e.new_price = f.price
                   ELSE \E e \in RowsOf(failed_price_change_attempts[t]) :
                           e.sku = sku /\ e.at = cycle[t]

\* C7 witness: the decision step has returned for a dataset with a changed
\* row, an unchanged row of the own shop and a row without a floor
C7_Witness ==
    /\ pc[1] = "write_back"
    /\ for_update_df[1] # <<>>
    /\ AbsentFloor(1) # {}
    /\ \E i \in Idx(updated_df_final[1]) : updated_df_final[1][i].prim = OwnShopMsg

\* an audit write of the current cycle was started and committed nothing
\* although no row of it was refused as data: the storage raised
StorageFailed(t) ==
    \/ /\ "audit_failed" \in StepSet(t)
       /\ \A e \in RowsOf(failed_price_change_attempts[t]) : e.at # cycle[t]
    \/ /\ "audit_success" \in StepSet(t)
       /\ ~InsertRaises(for_update_df[t], TRUE)
       /\ \A e \in RowsOf(price_change_history[t]) : e.at # cycle[t]

\* the loop of a tenant goes on from the end of a cycle to the sleep and from
\* the sleep to the next cycle while no shutdown is requested
LoopContinues(t) ==
    ~shutdown =>
        /\ pc[t] = "after_cycle" => pc'[t] \in {"after_cycle", "sleep"}
        /\ pc[t] = "sleep" => pc'[t] \in {"sleep", "loop"}
        /\ pc[t] = "loop" => pc'[t] \in {"loop", "fetch_sheets"}

\* C8: when the storage fails during an audit write the cycle ends with the
\* error result, nothing is written back, no payload is built and no request
\* is sent in that cycle, and the tenant's loop still goes on to the next cycle
C8_StorageErrorFatalToCycle ==
    /\ [](\A t \in Tenants :
            StorageFailed(t) =>
                /\ pc[t] \in {"after_cycle", "sleep", "loop", "cancelled", "stopped"}
                /\ result[t] = Error("storage")
                /\ "write_back" \notin StepSet(t)
                /\ "dispatch_start" \notin StepSet(t)
                /\ tasks[t] = <<>>
                /\ logged[t] = <<>>)
    /\ [][\A t \in Tenants : LoopContinues(t)]_vars

\* C8 witness: the second cycle has started after a first cycle that ended
\* with the storage error
C8_Witness ==
    /\ cycle[1] = 2
    /\ pc[1] = "fetch_sheets"
    /\ result[1] = Error("storage")

IsPrefix(a, b) == Len(a) <= Len(b) /\ \A k \in Idx(a) : a[k] = b[k]

\* C9: no step removes or rewrites an entry of price_change_history or of
\* failed_price_change_attempts: each table is a prefix of its next value
C9_AuditAppendOnly ==
    [][\A t \in Tenants :
          /\ IsPrefix(price_change_history[t], price_change_history'[t])
          /\ IsPrefix(failed_price_change_attempts[t], failed_price_change_attempts'[t])]_vars

\* C9 witness: both tables hold the entries of two cycles
C9_Witness ==
    /\ \E e \in RowsOf(price_change_history[1]) : e.at = 1
    /\ \E e \in RowsOf(price_change_history[1]) : e.at = 2
    /\ \E e \in RowsOf(failed_price_change_attempts[1]) : e.at = 1
    /\ \E e \in RowsOf(failed_price_change_attempts[1]) : e.at = 2

\* ------------------------------------------------------------------------
\* the SKUs whose price the decision step of the current cycle has changed
ChangedSkus(t) ==
    { updated_df[t][i].sku : i \in { j \in Idx(updated_df[t]) :
          updated_df_final[t][j].price # to_numeric(updated_df[t][j].price) } }
\* the SKUs for which a request was posted
SentSkus(t) == { tasks[t][i].payload.offerId : i \in { j \in Idx(tasks[t]) : tasks[t][j].sends > 0 } }

\* C11: with dry-run disabled a cycle creates exactly one request per SKU
\* whose price was changed and none for any other SKU, no request is posted
\* more than once whatever its outcome, and when the dispatch call has
\* returned every one of them was posted exactly once
C11_OneRequestPerChangedSku ==
    \A t \in Tenants :
        /\ \A i \in Idx(tasks[t]) : tasks[t][i].sends <= 1
        /\ (~DEBUG /\ CompareReturned(t)) =>
              /\ SentSkus(t) \subseteq ChangedSkus(t)
              /\ "dispatch_start" \in StepSet(t) =>
                    /\ Len(tasks[t]) = Cardinality(ChangedSkus(t))
                    /\ { tasks[t][i].payload.offerId : i \in Idx(tasks[t]) } = ChangedSkus(t)
              /\ "dispatch_end" \in StepSet(t) =>
                    \A i \in Idx(tasks[t]) : tasks[t][i].sends = 1
              /\ (pc[t] = "after_cycle" /\ result[t] = Success) => SentSkus(t) = ChangedSkus(t)

\* C11 witness: a cycle without dry-run has ended with success, one row was
\* changed and its request failed, another row was left unchanged
C11_Witness ==
    /\ ~DEBUG
    /\ pc[1] = "after_cycle" /\ result[1] = Success
    /\ \E i \in Idx(tasks[1]) : tasks[1][i].res = "error" /\ tasks[1][i].sends = 1
    /\ SkusOf(updated_df[1]) \ ChangedSkus(1) # {}

\* ------------------------------------------------------------------------
\* the tuples a table holds of the cycle `at`
OfCycle(table, at) == SelectSeq(table, LAMBDA e : e.at = at)

\* C12: with dry-run enabled no request task is ever created for any row, the
\* payload of every changed row is logged instead, and in either mode the
\* outcome the decision step returns is one that compare_prices computes from
\* the merged dataset and the configuration alone and the audit tables receive
\* exactly the entries of its changed rows and of its failed rows
C12_DryRunSendsNothing ==
    \A t \in Tenants :
        /\ DEBUG => tasks[t] = <<>>
        /\ (DEBUG /\ "dispatch_start" \in StepSet(t)) =>
              logged[t] = [i \in Idx(for_update_df[t]) |-> Payload(for_update_df[t][i])]
        /\ (CompareReturned(t) /\ pc[t] = "audit_failed") =>
              \E r \in compare_prices(updated_df[t], cfg[t].my_market,
                                       cfg[t].min_price_diff, cfg[t].max_price_diff) :
                  /\ ~r.raised
                  /\ r.updated_df = updated_df_final[t]
                  /\ r.for_update = for_update_df[t]
                  /\ r.failed_attempts = failed_attempts_df[t]
        /\ AuditDone(t) =>
              /\ OfCycle(price_change_history[t], cycle[t])
                    = Entries(for_update_df[t], TRUE, cycle[t])
              /\ OfCycle(failed_price_change_attempts[t], cycle[t])
                    = Entries(failed_attempts_df[t], FALSE, cycle[t])

\* C12 witness: a dry-run cycle has ended with success after logging the
\* payload of a changed row and writing its audit entry
C12_Witness ==
    /\ DEBUG
    /\ pc[1] = "after_cycle" /\ result[1] = Success
    /\ logged[1] # <<>>
    /\ OfCycle(price_change_history[1], cycle[1]) # <<>>
    /\ OfCycle(failed_price_change_attempts[1], cycle[1]) # <<>>

\* ------------------------------------------------------------------------
\* the payloads the dispatch call has built, in the order of the rows
Payloads(t) ==
    IF DEBUG THEN logged[t]
             ELSE [i \in Idx(tasks[t]) |-> tasks[t][i].payload]

\* C13: the dispatch call builds a payload for every row of the batch, with
\* discountBase 0 where the row's value is no integer and the integer part of
\* the value elsewhere; without dry-run the request of every row, the row
\* with the substituted 0 included, has been posted when the call returns
C13_DiscountBaseDefault ==
    \A t \in Tenants :
        /\ "dispatch_start" \in StepSet(t) =>
              /\ Len(Payloads(t)) = Len(for_update_df[t])
              /\ \A i \in Idx(for_update_df[t]) :
                    LET db == for_update_df[t][i].discount_base
                        p == Payloads(t)[i]
                    IN /\ p.offerId = for_update_df[t][i].sku
                       /\ p.value = for_update_df[t][i].price
                       /\ p.discountBase = IF IsNum(db) THEN PyInt(db) ELSE 0
        /\ ("dispatch_end" \in StepSet(t) /\ ~DEBUG) =>
              \A i \in Idx(tasks[t]) : tasks[t][i].sends = 1

\* C13 witness: the call for a batch of five whose first row has a text as
\* discount_base has returned after posting all five requests
C13_Witness ==
    /\ ~DEBUG
    /\ Len(for_update_df[1]) = 5
    /\ for_update_df[1][1].discount_base = Bad
    /\ "dispatch_end" \in StepSet(1)
    /\ tasks[1][1].payload.discountBase = 0 /\ tasks[1][1].st = "done"
    /\ tasks[1][5].st = "done"

\* ------------------------------------------------------------------------
\* everything the program holds for one tenant
TenantState(t) ==
    <<pc[t], cycle[t], cfg[t], sheets_flag[t], df_from_sheets[t], ym_report_df[t],
      current_time[t], updated_df[t], updated_df_final[t], for_update_df[t],
      failed_attempts_df[t], price_change_history[t], failed_price_change_attempts[t],
      sheet[t], tasks[t], semaphore[t], logged[t], result[t], steps[t]>>
\* the last cycle of the tenant ended with an error
CycleFailed(t) == result[t].status \in {"error", "raised"}

\* C14: the task of a tenant ends only after shutdown was signalled; a cycle
\* that ends with an error leaves the tenant at the end of the cycle, from
\* where, without shutdown, it goes to the sleep and from the sleep to the
\* next cycle; and the step that ends a cycle with an error changes nothing
\* of any other tenant
C14_CycleErrorKeepsLoop ==
    /\ [](\A t \in Tenants : pc[t] \in {"cancelled", "stopped"} => shutdown)
    /\ [][\A t \in Tenants :
            /\ (CycleFailed(t)' /\ result'[t] # result[t]) =>
                  /\ pc'[t] = "after_cycle"
                  /\ \A u \in Tenants \ {t} : TenantState(u)' = TenantState(u)
            /\ (CycleFailed(t) /\ ~shutdown) =>
                  /\ pc[t] = "after_cycle" => pc'[t] \in {"after_cycle", "sleep"}
                  /\ pc[t] = "sleep" => pc'[t] \in {"sleep", "loop"}
                  /\ pc[t] = "loop" =>
                        \/ pc'[t] = "loop"
                        \/ pc'[t] = "fetch_sheets" /\ cycle'[t] = cycle[t] + 1]_vars

\* C14 witness: without shutdown the first tenant, whose first cycle ended
\* with an error of the report fetch, waits for the report of its second
\* cycle while the second tenant, whose cycles fail on the configuration,
\* is in its second cycle too
C14_Witness ==
    /\ ~shutdown
    /\ cycle[1] = 2 /\ pc[1] = "poll_report" /\ result[1] = Error("report")
    /\ cycle[2] = 2 /\ result[2] = Raised("config")

\* ------------------------------------------------------------------------
\* the report fetch of the current cycle raised an error
ReportRaised(t) == "raises" \in StepSet(t)
\* the current cycle has written nothing to the spreadsheet, to the audit
\* tables or to the pricing endpoint
NothingWritten(t) ==
    /\ StepSet(t) \cap {"seed_write", "write_back", "audit_failed", "audit_success",
                        "dispatch_start"} = {}
    /\ OfCycle(price_change_history[t], cycle[t]) = <<>>
    /\ OfCycle(failed_price_change_attempts[t], cycle[t]) = <<>>
    /\ tasks[t] = <<>> /\ logged[t] = <<>>

\* C15: a cycle whose report fetch raised has ended with the error result
\* without a seed write, a final write, an audit entry or a dispatch, and
\* without shutdown the tenant goes from there to the sleep and on to the
\* next cycle
C15_ReportErrorAbortsCycle ==
    /\ [](\A t \in Tenants :
            ReportRaised(t) =>
                /\ pc[t] \in {"after_cycle", "sleep", "loop", "cancelled", "stopped"}
                /\ result[t] = Error("report")
                /\ NothingWritten(t))
    /\ [][\A t \in Tenants :
            (ReportRaised(t) /\ ~shutdown /\ pc'[t] # pc[t]) =>
                \/ pc[t] = "after_cycle" /\ pc'[t] = "sleep"
                \/ pc[t] = "sleep" /\ pc'[t] = "loop"
                \/ pc[t] = "loop" /\ pc'[t] = "fetch_sheets" /\ cycle'[t] = cycle[t] + 1]_vars

\* C15 witness: the report fetch of the first cycle raised while the job was
\* polled, after the own listing had been read, and the tenant has started
\* its second cycle
C15_Witness ==
    /\ cycle[1] = 2 /\ pc[1] = "fetch_report"
    /\ result[1] = Error("report")
    /\ sheet[1] = [listing |-> <<>>, final |-> <<>>]
    /\ price_change_history[1] = <<>> /\ failed_price_change_attempts[1] = <<>>

\* ------------------------------------------------------------------------
\* get_sheet_data raised in the current cycle: the block was entered and left
\* before current_time was bound
SheetsRaised(t) == "fetch_sheets" \in StepSet(t) /\ ~current_time[t]

ListingMissing(t) == "fetch_sheets" \in StepSet(t) /\ df_from_sheets[t] = <<>>
\* the report of the current cycle was fetched
ReportFetched(t) == ym_report_df[t] # <<>>

\* C17: a cycle that has ended without an own-listing dataset and with the
\* report fetched has done the seed write and no merge, decision, audit write
\* or dispatch
C17_MissingListingSeeds ==
    \A t \in Tenants :
        (pc[t] = "after_cycle" /\ ListingMissing(t) /\ ReportFetched(t)) =>
            /\ "seed_write" \in StepSet(t)
            /\ StepSet(t) \cap {"merge", "decide", "audit_failed", "audit_success",
                                "dispatch_start"} = {}

\* ------------------------------------------------------------------------
\* the report job of the current cycle ended as FAILED or NO_DATA
JobFailed(t) == StepSet(t) \cap {"FAILED", "NO_DATA"} # {}
\* the cycle is inside the polling loop of get_yandex_market_report
Polling(t) == pc[t] \in {"poll_wait", "poll_report"}

\* C18: a cycle whose report job ended as FAILED or NO_DATA has ended with
\* the error result and nothing written, and a cycle that polls a report job
\* eventually leaves the polling loop, whether or not the job ever reaches a
\* final status
C18_ReportJobFailureAbortsCycle ==
    /\ [](\A t \in Tenants :
            JobFailed(t) =>
                /\ pc[t] \in {"after_cycle", "sleep", "loop", "cancelled", "stopped"}
                /\ result[t] = Error("report")
                /\ NothingWritten(t))
    /\ \A t \in Tenants : Polling(t) ~> ~Polling(t)

\* ------------------------------------------------------------------------
\* the positions of a tenant between two cycles
BetweenCycles == {"after_cycle", "sleep", "loop"}

\* C19: once shutdown is signalled no step starts a cycle: the cycle number of
\* no tenant changes, no tenant enters the first step of a cycle, and a tenant
\* that is at the end of a cycle, in its sleep or at the top of its loop can
\* only stay there or leave the loop
C19_NoCycleAfterShutdown ==
    [][shutdown =>
          \A t \in Tenants :
              /\ cycle'[t] = cycle[t]
              /\ pc'[t] = "fetch_sheets" => pc[t] = "fetch_sheets"
              /\ pc[t] \in BetweenCycles => pc'[t] \in {pc[t], "stopped", "cancelled"}]_vars

\* C19 witness: shutdown is signalled and its wait for the tasks is going on;
\* the first tenant has left its loop after one successful cycle, uncancelled
\* and with cycles to go, while the second tenant is still in its sleep
C19_Witness ==
    /\ shutdown
    /\ coord = [c \in Coordinators |-> IF c = "signal" THEN "grace" ELSE "idle"]
    /\ pc[1] = "stopped" /\ cycle[1] < MaxCycles /\ result[1] = Success
    /\ pc[2] = "sleep"

\* ------------------------------------------------------------------------
\* the step cancels the task of tenant t
Cancels(t) == pc[t] # "cancelled" /\ pc'[t] = "cancelled"

\* C20: a task is cancelled only by a shutdown() call that ends its wait for
\* the tasks, and only if the task is not finished then; a finished task
\* stays finished; a shutdown() call has returned only when every tenant task
\* is finished; and once shutdown is signalled every tenant task finishes,
\* wherever in its cycle it is
C20_ShutdownTerminatesTasks ==
    /\ [](\A c \in Coordinators : coord[c] = "done" => active_tasks = {})
    /\ [][\A t \in Tenants :
            /\ pc[t] = "stopped" => pc'[t] = "stopped"
            /\ Cancels(t) =>
                  \E c \in Coordinators :
                      coord[c] = "grace" /\ coord'[c] = "wait_cancel"]_vars
    /\ shutdown ~> (active_tasks = {})

\* C20 witness: the shutdown() call of the signal has returned after it
\* cancelled the first tenant inside the polling loop of its last cycle
C20_Witness ==
    /\ coord["signal"] = "done"
    /\ pc[1] = "stopped" /\ cycle[1] = MaxCycles
    /\ steps[1] = <<"fetch_sheets", "fetch_report">>
    /\ result[1] = Error("report")

\* ------------------------------------------------------------------------
\* the state of a tenant's scheduler: Idle before the first cycle, Running
\* inside a cycle, Sleeping between two cycles, Stopped when the task is done
Phase(t) ==
    IF pc[t] = "stopped" THEN "Stopped"
    ELSE IF pc[t] = "cancelled" THEN "Stopping"
    ELSE IF pc[t] = "loop" /\ cycle[t] = 0 THEN "Idle"
    ELSE IF pc[t] \in {"sleep", "loop"} THEN "Sleeping"
    ELSE "Running"
Running(t) == Phase(t) = "Running"

\* C21: a tenant is in one position of one cycle at a time; a cycle starts
\* only at the top of the loop, from Idle or from Sleeping, with the next
\* cycle number; Sleeping is entered only from the end of a cycle; Stopped is
\* absorbing: the position, the cycle number and the steps of a stopped
\* tenant never change; and the phases follow one another only along
\* Idle -> Running -> Sleeping -> Running, with Stopped reachable from each
C21_SchedulerStateMachine ==
    [][\A t \in Tenants :
          /\ (cycle'[t] # cycle[t] \/ (Running(t)' /\ ~Running(t))) =>
                /\ pc[t] = "loop" /\ pc'[t] = "fetch_sheets"
                /\ cycle'[t] = cycle[t] + 1
                /\ Phase(t) \in {"Idle", "Sleeping"}
          /\ (pc'[t] = "sleep" /\ pc[t] # "sleep") => pc[t] = "after_cycle"
          /\ pc[t] = "stopped" =>
                pc'[t] = "stopped" /\ cycle'[t] = cycle[t] /\ steps'[t] = steps[t]
          /\ Phase(t)' # Phase(t) =>
                <<Phase(t), Phase(t)'>> \in
                    { <<"Idle", "Running">>, <<"Running", "Sleeping">>,
                      <<"Sleeping", "Running">>, <<"Idle", "Stopped">>,
                      <<"Running", "Stopped">>, <<"Sleeping", "Stopped">>,
                      <<"Idle", "Stopping">>, <<"Running", "Stopping">>,
                      <<"Sleeping", "Stopping">>, <<"Stopping", "Stopped">> }]_vars

\* C21 witness: the first tenant has stopped after its second cycle, that is
\* after Idle, Running, Sleeping, Running, while the second tenant sleeps
\* after its first cycle
C21_Witness ==
    /\ pc[1] = "stopped" /\ cycle[1] = 2 /\ result[1] = Success
    /\ pc[2] = "sleep" /\ cycle[2] = 1

\* ------------------------------------------------------- the merge alone
\* the bound on the rows of a merge input
MaxRows == 3

\* SHOP_SKU texts "1", "01", " 1 " (one key once standardised), "abc", "0abc"
SkuPlain == Sku(1, 0, 0, TRUE)
SkuZero == Sku(1, 1, 0, TRUE)
SkuPadded == Sku(1, 0, 1, TRUE)
SkuText == Sku(3, 0, 0, FALSE)
SkuZeroText == Sku(3, 1, 0, FALSE)

\* rows of the own listing: every row differs from the others in its cells
ListingRows ==
    { Row(SkuPlain, Whole(4), Whole(2), Whole(0), rival, ""),
      Row(SkuZero, Whole(3), NaN, Whole(1), "nan", "x"),
      Row(SkuPadded, NaN, Whole(1), NaN, own, "nan"),
      Row(SkuText, Whole(4), NaN, NaN, "nan", ""),
      Row(SkuZeroText, Whole(2), Whole(2), Whole(0), rival, "x") }

\* rows of the market report after dropna(subset=['PRICE_VALUE_ON_MARKET'])
ReportRows ==
    { RowReport(SkuPlain, Whole(1), Whole(1), rival),
      RowReport(SkuZero, NaN, Whole(2), "nan"),
      RowReport(SkuPadded, Whole(2), Whole(3), own),
      RowReport(Sku2, Whole(3), Whole(1), "nan"),
      RowReport(SkuZeroText, NaN, Whole(2), rival) }

\* the datasets of least..MaxRows rows
Frames(rows, least) == UNION { [1..n -> rows] : n \in least..MaxRows }

InitMerge ==
    /\ InitClock
    /\ shutdown = FALSE
    /\ coord = [c \in Coordinators |-> "idle"]
    /\ DEBUG = TRUE
    /\ sheets_flag = [t \in Tenants |-> t = 1]
    /\ current_time = [t \in Tenants |-> t = 1]
    /\ \E df1 \in Frames(ListingRows, 1), df2 \in Frames(ReportRows, 0) :
          /\ df_from_sheets = [t \in Tenants |-> IF t = 1 THEN df1 ELSE <<>>]
          /\ ym_report_df = [t \in Tenants |-> IF t = 1 THEN df2 ELSE <<>>]
    /\ updated_df_final = Empty
    /\ failed_attempts_df = Empty
    /\ failed_price_change_attempts = Empty
    /\ sheet = [t \in Tenants |-> [listing |-> <<>>, final |-> <<>>]]
    /\ tasks = Empty
    /\ semaphore = [t \in Tenants |-> 0]
    /\ logged = Empty
    /\ result = [t \in Tenants |-> NoResult]
    /\ pc = [t \in Tenants |-> IF t = 1 THEN "merge" ELSE "stopped"]
    /\ cycle = [t \in Tenants |-> IF t = 1 THEN 1 ELSE 0]
    /\ cfg = [t \in Tenants |-> Config]
    /\ updated_df = Empty
    /\ for_update_df = Empty
    /\ price_change_history = Empty
    /\ steps = [t \in Tenants |-> IF t = 1 THEN <<"fetch_sheets", "fetch_report">> ELSE <<>>]

\* update_dataframe with one dataset as both of its sources
MergeSelf(t) ==
    /\ pc[t] = "merge"
    /\ Step(t, "merge")
    /\ updated_df' = [updated_df EXCEPT ![t] =
                        update_dataframe(df_from_sheets[t], df_from_sheets[t],
                                         mapped_columns)]
    /\ Goto(t, "merged")
    /\ UNCHANGED <<result, cycle, signal, config, sleep_time, fetched, decided, store, sheet, calls>>

NextMerge == \E t \in Tenants : Merge(t) \/ MergeSelf(t)

SpecMerge == InitMerge /\ [][NextMerge]_vars

\* --- C22
\* the first row of df whose standardised SHOP_SKU is k, << >> when none
FirstOf(df, k) ==
    LET d == Standardized(df)
        at == { i \in Idx(d) : d[i].sku = k }
    IN IF at = {} THEN <<>> ELSE <<d[CHOOSE i \in at : \A j \in at : i <= j]>>

NoTwoRowsOneSku(df) == \A i, j \in Idx(df) : df[i].sku = df[j].sku => i = j

\* C22: whatever duplicates the own listing and the market report hold, the
\* merged dataset has no two rows with one standardised SHOP_SKU, and the row
\* kept for a SHOP_SKU is made of the first row of each source that has it:
\* the own columns of the first listing row, the market columns of the first
\* report row
C22_MergeKeepsFirstSeen ==
    pc[1] = "compare" =>
        /\ NoTwoRowsOneSku(updated_df[1])
        /\ \A i \in Idx(updated_df[1]) :
              LET r == updated_df[1][i]
                  l == FirstOf(df_from_sheets[1], r.sku)
                  m == FirstOf(ym_report_df[1], r.sku)
              IN /\ l # <<>> => r.stop = l[1].stop /\ r.prim = l[1].prim
                 /\ m # <<>> => r.mp = m[1].mp
                 /\ (m # <<>> /\ ~isna(m[1].price)) => r.price = m[1].price
                 /\ (m # <<>> /\ isna(m[1].price) /\ l # <<>>) => r.price = l[1].price

HasDuplicate(df) ==
    \E i, j \in Idx(df) : i < j /\ standardize_shop_sku(df[i].sku) = standardize_shop_sku(df[j].sku)
                                /\ df[i] # df[j]

C22_Witness ==
    /\ pc[1] = "compare"
    /\ HasDuplicate(df_from_sheets[1])
    /\ HasDuplicate(ym_report_df[1])
    /\ Len(updated_df[1]) = 1

\* --- C23
\* the cell of column c in the first row of df with key k; missing when none
CellOf(df, k, c) ==
    LET r == FirstOf(df, k)
    IN IF r # <<>> THEN r[1][c]
       ELSE IF c \in {"holder", "prim"} THEN "nan" ELSE NaN

\* the cell v of column c is missing
Missing(c, v) == IF c \in {"holder", "prim"} THEN v = "nan" ELSE isna(v)

\* C23: the merge is a full outer join on the standardised SHOP_SKU: the keys
\* of the result are the keys of the listing and of the report together; in a
\* column the report has, a row holds the report's value when there is one and
\* the listing's value otherwise; the columns the report lacks (STOP, PRIM)
\* hold the listing's values
C23_MergeIsOuterJoin ==
    pc[1] = "compare" =>
        /\ KeysOf(updated_df[1]) =
              KeysOf(Standardized(df_from_sheets[1])) \cup KeysOf(Standardized(ym_report_df[1]))
        /\ \A i \in Idx(updated_df[1]) :
              LET r == updated_df[1][i]
              IN /\ \A c \in report_columns :
                       r[c] = IF Missing(c, CellOf(ym_report_df[1], r.sku, c))
                              THEN CellOf(df_from_sheets[1], r.sku, c)
                              ELSE CellOf(ym_report_df[1], r.sku, c)
                 /\ \A c \in mapped_columns \ report_columns :
                       r[c] = CellOf(df_from_sheets[1], r.sku, c)

\* a key of the listing alone, a key of the report alone, and a key of both
\* whose report price is missing and whose listing price is not
C23_Witness ==
    /\ pc[1] = "compare"
    /\ KeysOf(Standardized(df_from_sheets[1])) \ KeysOf(Standardized(ym_report_df[1])) # {}
    /\ KeysOf(Standardized(ym_report_df[1])) \ KeysOf(Standardized(df_from_sheets[1])) # {}
    /\ \E i \in Idx(updated_df[1]) :
          LET r == updated_df[1][i]
          IN /\ FirstOf(ym_report_df[1], r.sku) # <<>>
             /\ Missing("price", CellOf(ym_report_df[1], r.sku, "price"))
             /\ ~Missing("price", r.price)
             /\ r.mp = CellOf(ym_report_df[1], r.sku, "mp")
             /\ r.mp # CellOf(df_from_sheets[1], r.sku, "mp")

\* --- C24
\* C24: a dataset merged with itself comes out with as many rows as it has
\* distinct standardised SHOP_SKUs, and the row of a SHOP_SKU holds, in every
\* mapped column, the value the second source has for it (its first row of
\* that SHOP_SKU)
C24_SelfMerge ==
    pc[1] = "merged" =>
        /\ Len(updated_df[1]) = Cardinality(KeysOf(Standardized(df_from_sheets[1])))
        /\ \A i \in Idx(updated_df[1]) :
              \A c \in mapped_columns :
                 updated_df[1][i][c] = CellOf(df_from_sheets[1], updated_df[1][i].sku, c)

\* the dataset has three rows of two SHOP_SKUs, one of them written in two ways
C24_Witness ==
    /\ pc[1] = "merged"
    /\ Len(df_from_sheets[1]) = 3
    /\ Len(updated_df[1]) = 2
    /\ \E i, j \in Idx(df_from_sheets[1]) :
          /\ i < j
          /\ df_from_sheets[1][i].sku # df_from_sheets[1][j].sku
          /\ standardize_shop_sku(df_from_sheets[1][i].sku)
                = standardize_shop_sku(df_from_sheets[1][j].sku)

\* --- C25
\* C25 as claimed: a row with numeric prices whose best-price holder is one of
\* the own shops keeps its price, is not among the changed rows, and carries
\* the reason that an own shop already holds the minimum price
C25_OwnShopUnchanged ==
    \A t \in Tenants :
        CompareReturned(t) =>
            \A i \in Idx(updated_df[t]) :
                LET r == updated_df[t][i]
                    f == updated_df_final[t][i]
                IN (IsNum(r.price) /\ IsNum(r.mp) /\ IsNum(r.stop)
                        /\ r.holder \in cfg[t].my_market) =>
                      /\ f.price = r.price
                      /\ f.prim = OwnShopMsg
                      /\ r.sku \notin SkusOf(for_update_df[t])

\* --- C26
\* the row and the bounds of scenario A: price 150, market price 120, stop 100,
\* best price held by a rival; min_price_diff 10, max_price_diff 50
ScenarioRow == Row(Sku1, Whole(150), Whole(120), Whole(100), rival, "")
ScenarioConfig == MarketplaceConfig("listing_a", "market", "key", 10, 50)

InitScenario ==
    /\ InitCommon
    /\ pc = [t \in Tenants |-> IF t = 1 THEN "compare" ELSE "stopped"]
    /\ cycle = [t \in Tenants |-> IF t = 1 THEN 1 ELSE 0]
    /\ cfg = [t \in Tenants |-> ScenarioConfig]
    /\ updated_df = [t \in Tenants |-> IF t = 1 THEN <<ScenarioRow>> ELSE <<>>]
    /\ for_update_df = Empty
    /\ price_change_history = Empty
    /\ steps = [t \in Tenants |-> IF t = 1 THEN <<"fetch_sheets", "fetch_report", "merge">>
                                           ELSE <<>>]

SpecScenario == InitScenario /\ [][NextDecide]_vars

\* the scenario row passes the mask and its price is changed to a whole number
\* from lo to hi
ScenarioPriceWithin(lo, hi) ==
    CompareReturned(1) =>
        /\ mask(Prepare(updated_df[1]))[1]
        /\ Len(for_update_df[1]) = 1
        /\ \E n \in lo..hi : /\ updated_df_final[1][1].price = Whole(n)
                             /\ for_update_df[1][1].price = Whole(n)

\* C26 as claimed: the scenario row is eligible and every new price it can get
\* lies in [100, 110]
C26_ScenarioWindowClaimed == ScenarioPriceWithin(100, 110)

\* C26 amended: 150 - 120 = 30 is not above max_price_diff = 50, so the window
\* is [max(120 - 10, 100), 120 - 1]: the scenario row is eligible and every new
\* price it can get lies in [110, 119]
C26_ScenarioWindow == ScenarioPriceWithin(110, 119)

C26_Witness ==
    /\ CompareReturned(1)
    /\ updated_df[1] = <<ScenarioRow>>
    /\ updated_df_final[1][1].price = Whole(119)
    /\ updated_df_final[1][1].prim = ChangedMsg

\* --- C27
\* the rows that reach the normal adjustment: three numeric prices, not far
\* below the market price, not below the stop, best price not held by an own shop
InNormalBranch(r, my_market, max_price_diff) ==
    /\ IsNum(r.price) /\ IsNum(r.mp) /\ IsNum(r.stop)
    /\ ~(r.mp.v - r.price.v > max_price_diff * Scale)
    /\ ~(r.price.v < r.stop.v)
    /\ r.holder \notin my_market

Larger(a, b) == IF a > b THEN a ELSE b

\* the ends of the target window as the claim states them, in units of 1/Scale
WindowLow(r, min_price_diff, max_price_diff) ==
    IF r.price.v - r.mp.v > max_price_diff * Scale
    THEN Larger(r.mp.v - max_price_diff * Scale, r.stop.v)
    ELSE Larger(r.mp.v - min_price_diff * Scale, r.stop.v)

WindowHigh(r, min_price_diff, max_price_diff) ==
    IF r.price.v - r.mp.v > max_price_diff * Scale
    THEN r.mp.v - min_price_diff * Scale
    ELSE r.mp.v - Scale

\* C27 as claimed: a row of the normal adjustment whose window is empty or
\* inverted keeps its price and is recorded with the reason 'invalid price
\* range'; any other row of the branch gets a whole-number price inside the
\* window and not below the stop
C27_NormalWindow ==
    \A t \in Tenants :
        CompareReturned(t) =>
            \A i \in Idx(updated_df[t]) :
                LET r == updated_df[t][i]
                    f == updated_df_final[t][i]
                    lo == WindowLow(r, cfg[t].min_price_diff, cfg[t].max_price_diff)
                    hi == WindowHigh(r, cfg[t].min_price_diff, cfg[t].max_price_diff)
                IN InNormalBranch(r, cfg[t].my_market, cfg[t].max_price_diff) =>
                      IF lo >= hi
                      THEN /\ f.price = r.price
                           /\ r.sku \notin SkusOf(for_update_df[t])
                           /\ \E k \in Idx(failed_attempts_df[t]) :
                                 /\ failed_attempts_df[t][k].sku = r.sku
                                 /\ failed_attempts_df[t][k].prim = InvalidRangeMsg
                      ELSE /\ IsNum(f.price)
                           /\ f.price.v % Scale = 0
                           /\ lo <= f.price.v /\ f.price.v <= hi
                           /\ f.price.v >= r.stop.v

\* --- C28
FarBelow(r, max_price_diff) == r.mp.v - r.price.v > max_price_diff * Scale
Numeric(r) == IsNum(r.price) /\ IsNum(r.mp) /\ IsNum(r.stop)

\* the new price is the market price less a whole r of min..max, or the stop
\* when that is below the stop
RaisedTowardsMarket(r, f, min_price_diff, max_price_diff) ==
    /\ IsNum(f.price)
    /\ \E d \in min_price_diff..max_price_diff :
          f.price.v = Larger(r.mp.v - d * Scale, r.stop.v)

\* the new price is the stop plus a whole k of 20..50
RaisedAboveStop(r, f) ==
    /\ IsNum(f.price)
    /\ \E k \in StopIncreaseMin..StopIncreaseMax : f.price.v = r.stop.v + k * Scale

Changed(t) ==
    { i \in Idx(updated_df[t]) :
        updated_df_final[t][i].price # to_numeric(updated_df[t][i].price) }

\* db is a whole number at most one half away from [1.3 * price, 1.6 * price]
WithinDiscountRange(price, db) ==
    /\ IsNum(db) /\ db.v % Scale = 0
    /\ 13 * price.v - 5 * Scale <= 10 * db.v
    /\ 10 * db.v <= 16 * price.v + 5 * Scale

\* the rows handed to the dispatch are the changed rows, each with a
\* discount_base in the range of its new price
DiscountBaseOfChanged(t) ==
    /\ SkusOf(for_update_df[t]) = { updated_df[t][i].sku : i \in Changed(t) }
    /\ \A k \in Idx(for_update_df[t]) :
          /\ IsNum(for_update_df[t][k].price)
          /\ WithinDiscountRange(for_update_df[t][k].price, for_update_df[t][k].discount_base)

\* C29 as claimed: a row has a discount_base exactly when its price was
\* changed, it lies between 1.3 and 1.6 times the new price rounded to a whole
\* number, it is never below a positive new price, and every row handed to the
\* dispatch has one
C29_DiscountBaseClaimed ==
    \A t \in Tenants :
        CompareReturned(t) =>
            /\ DiscountBaseOfChanged(t)
            /\ \A k \in Idx(for_update_df[t]) :
                  for_update_df[t][k].price.v > 0 =>
                     for_update_df[t][k].discount_base.v >= for_update_df[t][k].price.v

\* C29 amended: as claimed, but the discount_base is never below the new price
\* only when the new price is a whole number
C29_DiscountBase ==
    \A t \in Tenants :
        CompareReturned(t) =>
            /\ DiscountBaseOfChanged(t)
            /\ \A k \in Idx(for_update_df[t]) :
                  for_update_df[t][k].price.v % Scale = 0 =>
                     for_update_df[t][k].discount_base.v >= for_update_df[t][k].price.v

\* a row raised to a quarter of a rouble got the discount_base 0
C29_Witness ==
    /\ CompareReturned(1)
    /\ Changed(1) = {1}
    /\ for_update_df[1][1].price = Num(1)
    /\ for_update_df[1][1].discount_base = Whole(0)

\* ------------------------------------------- the files of two tenants
\* what re.sub(r'[^\w\-_]', '_', name) makes of the names of the model: the
\* blank of "shop 1" and of "market b" becomes "_", the other names are words
safe_name(name) ==
    CASE name = "shop 1" -> "shop_1"
      [] name = "market b" -> "market_b"
      [] OTHER -> name

\* SQLITE_DB_NAME, as the parts of the f-string
SQLITE_DB_NAME(c) ==
    <<"databases/", safe_name(c.user_id), "_data_", safe_name(c.market_name), ".db">>

\* the file of updated_df.to_csv(f"{config.market_name}.csv")
MergedCsvName(c) == <<c.market_name, ".csv">>

\* a configuration with the user id of its column in the configuration file
UserConfig(user_id, market_name) ==
    ("user_id" :> user_id) @@ MarketplaceConfig("listing_b", market_name, "key", 2, 3)

\* two tenants about to merge one listing row with one report row
InitShared ==
    /\ InitClock
    /\ shutdown = FALSE
    /\ coord = [c \in Coordinators |-> "idle"]
    /\ DEBUG \in BOOLEAN
    /\ sheets_flag = [t \in Tenants |-> TRUE]
    /\ current_time = [t \in Tenants |-> TRUE]
    /\ df_from_sheets = [t \in Tenants |-> <<RowNormal(Sku1)>>]
    /\ ym_report_df = [t \in Tenants |-> <<RowReport(Sku1, Whole(4), Whole(2), rival)>>]
    /\ \E u \in {"shop 1", "shop_2"}, m \in {"market", "market b", "market_b"} :
          cfg = [t \in Tenants |-> IF t = 1 THEN UserConfig("shop_1", "market_b")
                                            ELSE UserConfig(u, m)]
    /\ updated_df = Empty
    /\ updated_df_final = Empty
    /\ for_update_df = Empty
    /\ failed_attempts_df = Empty
    /\ price_change_history = Empty
    /\ failed_price_change_attempts = Empty
    /\ sheet = [t \in Tenants |-> [listing |-> <<>>, final |-> <<>>]]
    /\ tasks = Empty
    /\ semaphore = [t \in Tenants |-> 0]
    /\ logged = Empty
    /\ result = [t \in Tenants |-> NoResult]
    /\ pc = [t \in Tenants |-> "merge"]
    /\ cycle = [t \in Tenants |-> 1]
    /\ steps = [t \in Tenants |-> <<"fetch_sheets", "fetch_report">>]

NextShared == \E t \in Tenants : Merge(t) \/ Compare(t) \/ AuditFailed(t) \/ AuditSuccess(t)

SpecShared == InitShared /\ [][NextShared]_vars

\* --- C30
\* the cycle of t has written the merged dataset to its csv file
WroteCsv(t) == "merge" \in StepSet(t) /\ updated_df[t] # <<>>
\* the cycle of t has committed rows to its audit store
WroteStore(t) == price_change_history[t] # <<>> \/ failed_price_change_attempts[t] # <<>>

\* C30 as claimed: two tenants whose (user id, market name) pairs differ never
\* write to one audit store, and no file is written by the cycles of two tenants
C30_TenantsShareNothing ==
    \A t1, t2 \in Tenants :
        t1 # t2 =>
            /\ (WroteStore(t1) /\ WroteStore(t2)
                   /\ <<cfg[t1].user_id, cfg[t1].market_name>>
                        # <<cfg[t2].user_id, cfg[t2].market_name>>) =>
                  SQLITE_DB_NAME(cfg[t1]) # SQLITE_DB_NAME(cfg[t2])
            /\ (WroteCsv(t1) /\ WroteCsv(t2)) =>
                  MergedCsvName(cfg[t1]) # MergedCsvName(cfg[t2])

\* ------------------------------------------------- the wait between cycles
\* the longest cycle looked at, in seconds
MaxSeconds == 65

\* UPDATE_INTERVAL_MINUTES as the configuration file gives it, in units of
\* 1/Scale: minus one, zero, one, one and a half, two minutes
IntervalsRaw == {0 - Scale, 0, Scale, Scale + (Scale \div 2), 2 * Scale}

\* a tenant at the top of its loop whose cycles take any number of seconds;
\* without an api key its cycle does no work
InitSleep ==
    /\ shutdown = FALSE
    /\ coord = [c \in Coordinators |-> "idle"]
    /\ DEBUG = TRUE
    /\ \E raw \in IntervalsRaw :
          cfg = [t \in Tenants |->
                    [ConfigNoKey EXCEPT !.update_interval_minutes = int_minutes(raw)]]
    /\ \E secs \in [1..MaxCycles -> 0..MaxSeconds] :
          cycle_seconds = [t \in Tenants |-> secs]
    /\ sleep_time = [t \in Tenants |-> 0]
    /\ pc = [t \in Tenants |-> IF t = 1 THEN "loop" ELSE "stopped"]
    /\ cycle = [t \in Tenants |-> 0]
    /\ sheets_flag = [t \in Tenants |-> FALSE]
    /\ current_time = [t \in Tenants |-> FALSE]
    /\ df_from_sheets = Empty
    /\ ym_report_df = Empty
    /\ updated_df = Empty
    /\ updated_df_final = Empty
    /\ for_update_df = Empty
    /\ failed_attempts_df = Empty
    /\ price_change_history = Empty
    /\ failed_price_change_attempts = Empty
    /\ sheet = [t \in Tenants |-> [listing |-> <<>>, final |-> <<>>]]
    /\ tasks = Empty
    /\ semaphore = [t \in Tenants |-> 0]
    /\ logged = Empty
    /\ result = [t \in Tenants |-> NoResult]
    /\ steps = Empty

NextSleep ==
    \E t \in Tenants : LoopCheck(t) \/ FetchSheets(t) \/ AfterCycle(t) \/ SleepTimeout(t)

SpecSleep == InitSleep /\ [][NextSleep]_vars

\* the polling interval of tenant t in seconds: the least whole number of
\* minutes that is not below the configured interval
IntervalSeconds(t) ==
    60 * (CHOOSE m \in (0 - 3)..3 :
             /\ m * Scale >= cfg[t].update_interval_minutes
             /\ (m - 1) * Scale < cfg[t].update_interval_minutes)

\* the seconds the cycle of tenant t that has just ended took
CycleDuration(t) == cycle_seconds[t][cycle[t]]

\* C31: the wait after a cycle lasts max(0, interval - duration of that
\* cycle) seconds: it is never negative, it is zero when the cycle took at
\* least the interval, and the cycle and the wait together last at least
\* the interval
C31_SleepFillsTheInterval ==
    \A t \in Tenants :
        pc[t] = "sleep" =>
            /\ sleep_time[t] >= 0
            /\ (CycleDuration(t) >= IntervalSeconds(t) => sleep_time[t] = 0)
            /\ (CycleDuration(t) < IntervalSeconds(t) =>
                    sleep_time[t] = IntervalSeconds(t) - CycleDuration(t))
            /\ CycleDuration(t) + sleep_time[t] >= IntervalSeconds(t)

\* the second cycle took longer than the interval of one minute after a first
\* one that took less: no wait this time
C31_Witness ==
    /\ pc[1] = "sleep" /\ cycle[1] = 2
    /\ IntervalSeconds(1) = 60
    /\ cycle_seconds[1][1] < 60 /\ cycle_seconds[1][2] > 60
    /\ sleep_time[1] = 0

\* the tasks of tenant t that hold a slot of the call's semaphore
HoldsSlot(task) == task.st \in {"sleep", "send"}

\* C32: a request is posted only by a task that holds a slot and has got
\* through the pacing delay, which begins only by taking a free slot; a slot
\* is given back only by a task whose request has ended, with whatever
\* outcome, and in no other step
C32_SlotDelaySendRelease ==
    [][\A t \in Tenants :
          (pc[t] = "gather" /\ pc'[t] = "gather") =>
             /\ \A i \in Idx(tasks[t]) :
                   LET a == tasks[t][i]
                       b == tasks'[t][i]
                   IN  /\ (b.st = "sleep" /\ a.st # "sleep") =>
                              /\ a.st = "created"
                              /\ semaphore[t] > 0
                              /\ semaphore'[t] = semaphore[t] - 1
                       /\ (b.st = "send" /\ a.st # "send") =>
                              /\ a.st = "sleep"
                              /\ b.sends = a.sends + 1
                              /\ semaphore'[t] = semaphore[t]
                       /\ b.sends # a.sends => (b.st = "send" /\ a.st = "sleep")
                       /\ (HoldsSlot(a) /\ ~HoldsSlot(b)) =>
                              /\ a.st = "send" /\ a.sends = 1
                              /\ b.res # "none"
                              /\ semaphore'[t] = semaphore[t] + 1
             /\ semaphore'[t] > semaphore[t] =>
                   \E i \in Idx(tasks[t]) :
                       tasks[t][i].st = "send" /\ ~HoldsSlot(tasks'[t][i])
    ]_vars

\* a call of five rows: one request has ended and given its slot to the row
\* that waited, so that a request is posted, one is in its delay and no slot
\* is free
C32_Witness ==
    /\ pc[1] = "gather" /\ Len(tasks[1]) = MaxBatch
    /\ semaphore[1] = 0
    /\ \E i, j, k \in Idx(tasks[1]) :
          /\ tasks[1][i].st = "done" /\ tasks[1][i].sends = 1
          /\ tasks[1][i].res = "error"
          /\ tasks[1][j].st = "send"
          /\ tasks[1][k].st = "sleep"

\* the requests of the current dispatch call of tenant t that have been posted
Posted(t) == { i \in Idx(tasks[t]) : tasks[t][i].sends > 0 }

\* the entries price_change_history holds for the current cycle of tenant t
HistoryOfCycle(t) ==
    { i \in Idx(price_change_history[t]) : price_change_history[t][i].at = cycle[t] }

\* C33: every request posted in a cycle is for a SKU that has an entry of that
\* cycle in price_change_history at the moment the request is posted and
\* from then on, and the request carries the new_price and the discount_base
\* of that entry
C33_HistoryBeforeRequest ==
    \A t \in Tenants :
        \A i \in Posted(t) :
            \E h \in HistoryOfCycle(t) :
                /\ price_change_history[t][h].sku = tasks[t][i].payload.offerId
                /\ price_change_history[t][h].new_price = tasks[t][i].payload.value
                /\ price_change_history[t][h].discount_base =
                      Whole(tasks[t][i].payload.discountBase)

\* in its second cycle a tenant posts a request for a row whose entry of the
\* second cycle follows the entry of the first in the history
C33_Witness ==
    /\ pc[1] = "gather" /\ cycle[1] = 2
    /\ \E i \in Posted(1) : tasks[1][i].st = "send"
    /\ \E h \in Idx(price_change_history[1]) : price_change_history[1][h].at = 1
    /\ HistoryOfCycle(1) # {}

\* the entries of the current cycle of tenant t that a table holds for a SKU
AuditEntries(table, t, sku) ==
    { e \in Idx(table[t]) : table[t][e].sku = sku /\ table[t][e].at = cycle[t] }

\* C34 as claimed: when the decision step has returned, every row of the
\* merged dataset has exactly one audit entry of this cycle: one in
\* price_change_history or one in failed_price_change_attempts, never both
\* and never two in failed_price_change_attempts
C34_OneAuditEntryPerRow ==
    \A t \in Tenants :
        AuditDone(t) =>
            \A i \in Idx(updated_df[t]) :
                LET sku == updated_df[t][i].sku
                IN (\A j \in Idx(updated_df[t]) : updated_df[t][j].sku = sku => j = i) =>
                      Cardinality(AuditEntries(price_change_history, t, sku))
                        + Cardinality(AuditEntries(failed_price_change_attempts, t, sku)) = 1

\* ------------------------------------------------- one dispatch call, fair
\* one tenant whose cycle has reached update_price_ym with a batch of 1 to
\* MaxBatch changed rows; the other tenant has stopped
InitCall ==
    /\ InitClock
    /\ shutdown = FALSE
    /\ coord = [c \in Coordinators |-> "idle"]
    /\ DEBUG \in BOOLEAN
    /\ current_time = [t \in Tenants |-> t = 1]
    /\ pc = [t \in Tenants |-> IF t = 1 THEN "dispatch" ELSE "stopped"]
    /\ cycle = [t \in Tenants |-> IF t = 1 THEN 1 ELSE 0]
    /\ cfg = [t \in Tenants |-> Config]
    /\ \E n \in 1..MaxBatch :
          LET Of(t, df) == IF t = 1 THEN df ELSE <<>>
          IN /\ df_from_sheets = [t \in Tenants |-> Of(t, BatchSource(n))]
             /\ updated_df = [t \in Tenants |-> Of(t, BatchSource(n))]
             /\ updated_df_final = [t \in Tenants |-> Of(t, BatchFinal(n))]
             /\ for_update_df = [t \in Tenants |-> Of(t, Batch(n))]
             /\ price_change_history =
                   [t \in Tenants |-> Of(t, Committed(<<>>, Batch(n), TRUE, 1))]
             /\ sheet = [t \in Tenants |-> [listing |-> <<>>, final |-> Of(t, BatchFinal(n))]]
    /\ sheets_flag = [t \in Tenants |-> t = 1]
    /\ ym_report_df = Empty
    /\ failed_attempts_df = Empty
    /\ failed_price_change_attempts = Empty
    /\ tasks = Empty
    /\ semaphore = [t \in Tenants |-> 0]
    /\ logged = Empty
    /\ result = [t \in Tenants |-> NoResult]
    /\ steps = [t \in Tenants |->
                   IF t = 1 THEN <<"fetch_sheets", "fetch_report", "merge", "decide",
                                   "audit_success", "write_back">>
                            ELSE <<>>]

\* the event loop runs a task that can go on, and a request that was posted
\* ends: with a response, or with the error of the session's timeout
FairnessCall ==
    \A t \in Tenants :
        /\ WF_vars(Requests(t))
        /\ WF_vars(DispatchStart(t) \/ DispatchReturn(t) \/ Finish(t))

FairSpecCall == InitCall /\ [][NextDispatch]_vars /\ FairnessCall

\* C35: a dispatch call that has created its tasks returns: every task gets
\* a slot and posts its request once, whatever the outcomes of the other
\* requests, and when the call has returned all the slots are free again
C35_DispatchCallTerminates ==
    \A t \in Tenants :
        (pc[t] = "gather") ~>
            /\ pc[t] = "finish"
            /\ semaphore[t] = SemaphoreSlots
            /\ \A i \in Idx(tasks[t]) : tasks[t][i].st = "done" /\ tasks[t][i].sends = 1

\* a call of five rows has returned after four requests that failed and one
\* that succeeded, with the four slots free
C35_Witness ==
    /\ pc[1] = "finish" /\ Len(tasks[1]) = MaxBatch
    /\ semaphore[1] = SemaphoreSlots
    /\ Cardinality({ i \in Idx(tasks[1]) : tasks[1][i].res = "error" }) = SemaphoreSlots
    /\ \A i \in Idx(tasks[1]) : tasks[1][i].st = "done"

\* ------------------------------------- the decision under every pair of bounds
\* price_decrease_lower and price_decrease_upper as int() of whatever the
\* configuration file holds: negative, zero, equal, or the lower above the upper
AllDeltas == { <<a, b>> : a \in (0 - 1)..(MaxPrice - 2), b \in (0 - 1)..(MaxPrice - 2) }

\* the rows with three whole prices of 0 to MaxPrice roubles
NumericRows ==
    { Row(Sku1, Whole(p), Whole(m), Whole(s), h, "") :
        p \in 0..MaxPrice, m \in 0..MaxPrice, s \in 0..MaxPrice, h \in {own, rival} }

InitBounds ==
    /\ InitCommon
    /\ pc = [t \in Tenants |-> IF t = 1 THEN "compare" ELSE "stopped"]
    /\ cycle = [t \in Tenants |-> IF t = 1 THEN 1 ELSE 0]
    /\ \E d \in AllDeltas :
          cfg = [t \in Tenants |-> MarketplaceConfig("listing_a", "market", "key",
                                                      d[1], d[2])]
    /\ \E row \in NumericRows :
          updated_df = [t \in Tenants |-> IF t = 1 THEN <<row>> ELSE <<>>]
    /\ for_update_df = Empty
    /\ price_change_history = Empty
    /\ steps = [t \in Tenants |-> IF t = 1 THEN <<"fetch_sheets", "fetch_report", "merge">>
                                           ELSE <<>>]

SpecBounds == InitBounds /\ [][NextDecide]_vars

\* the market price of the row is at or below its floor and its price is not
\* below the floor
AtFloor(r) == Numeric(r) /\ r.mp.v <= r.stop.v /\ r.price.v >= r.stop.v

\* C36 as claimed: a row whose market price is at or below the floor and whose
\* price is not below the floor keeps its price and is not among the changed
\* rows, for every pair of bounds and every holder of the best price
C36_AtFloorUnchangedAllBounds ==
    \A t \in Tenants :
        CompareReturned(t) =>
            \A i \in Idx(updated_df[t]) :
                AtFloor(updated_df[t][i]) =>
                    /\ updated_df_final[t][i].price = updated_df[t][i].price
                    /\ updated_df[t][i].sku \notin SkusOf(for_update_df[t])

\* C36 amended: the same for every pair of bounds that are not negative,
\* be they zero, equal, or the lower one above the upper one
C36_AtFloorUnchanged ==
    \A t \in Tenants :
        (CompareReturned(t) /\ cfg[t].min_price_diff >= 0 /\ cfg[t].max_price_diff >= 0) =>
            \A i \in Idx(updated_df[t]) :
                AtFloor(updated_df[t][i]) =>
                    /\ updated_df_final[t][i].price = updated_df[t][i].price
                    /\ updated_df[t][i].sku \notin SkusOf(for_update_df[t])

\* a rival holds the best price, the market price is below the floor, the
\* price is above it, the lower bound is above the upper one: nothing moves
C36_Witness ==
    /\ CompareReturned(1)
    /\ AtFloor(updated_df[1][1])
    /\ updated_df[1][1].holder = rival
    /\ updated_df[1][1].mp.v < updated_df[1][1].stop.v
    /\ updated_df[1][1].price.v > updated_df[1][1].stop.v
    /\ cfg[1].min_price_diff > cfg[1].max_price_diff /\ cfg[1].max_price_diff >= 0
    /\ updated_df_final[1][1].price = updated_df[1][1].price
    /\ for_update_df[1] = <<>>

\* C37: a row with three numeric prices that is far below the market price,
\* decided with bounds 0 <= min_price_diff <= max_price_diff, is always
\* changed: its new price is above the old one and not below the floor, and
\* the row is among the changed rows, whoever holds the best price
C37_FarBelowAlwaysRaised ==
    \A t \in Tenants :
        (CompareReturned(t) /\ 0 <= cfg[t].min_price_diff
                            /\ cfg[t].min_price_diff <= cfg[t].max_price_diff) =>
            \A i \in Idx(updated_df[t]) :
                LET r == updated_df[t][i]
                    f == updated_df_final[t][i]
                IN (Numeric(r) /\ FarBelow(r, cfg[t].max_price_diff)) =>
                      /\ IsNum(f.price)
                      /\ f.price.v > r.price.v
                      /\ f.price.v >= r.stop.v
                      /\ for_update_df[t] # <<>>
                      /\ for_update_df[t][1].sku = r.sku
                      /\ for_update_df[t][1].price = f.price

\* an own shop holds the best price of a row far below the market price; the
\* bounds are equal; the row is raised to the market price less the bound,
\* above its floor
C37_Witness ==
    /\ CompareReturned(1)
    /\ Numeric(updated_df[1][1])
    /\ FarBelow(updated_df[1][1], cfg[1].max_price_diff)
    /\ updated_df[1][1].holder = own
    /\ cfg[1].min_price_diff = cfg[1].max_price_diff /\ cfg[1].min_price_diff > 0
    /\ updated_df_final[1][1].price.v > updated_df[1][1].stop.v
    /\ updated_df_final[1][1].price.v > updated_df[1][1].price.v
    /\ for_update_df[1] # <<>>

\* C38: one call of save_price_changes_to_db either appends the entries of
\* all the rows it was given to its table or leaves the table as it was, and
\* it never touches the other table; a call that raises leaves both tables
\* as the earlier calls left them
C38_AuditCallAllOrNothing ==
    [][\A t \in Tenants :
          LET h == price_change_history[t]
              f == failed_price_change_attempts[t]
          IN /\ pc[t] = "audit_failed" =>
                   /\ price_change_history'[t] = h
                   /\ \/ failed_price_change_attempts'[t] = f
                      \/ failed_price_change_attempts'[t] =
                            f \o Entries(failed_attempts_df[t], FALSE, cycle[t])
                   /\ pc'[t] = "after_cycle" => failed_price_change_attempts'[t] = f
             /\ pc[t] = "audit_success" =>
                   /\ failed_price_change_attempts'[t] = f
                   /\ \/ price_change_history'[t] = h
                      \/ price_change_history'[t] =
                            h \o Entries(for_update_df[t], TRUE, cycle[t])
                   /\ pc'[t] = "after_cycle" => price_change_history'[t] = h
    ]_vars

\* the second cycle has ended with an error in the call for two changed rows:
\* the history holds the entries of the first cycle and none of the second,
\* and the failed attempts written before in the second cycle are in place
C38_Witness ==
    /\ pc[1] = "after_cycle" /\ cycle[1] = 2
    /\ result[1] \in {Error("storage"), Error("compare")}
    /\ "audit_success" \in StepSet(1)
    /\ Len(for_update_df[1]) >= 2
    /\ price_change_history[1] # <<>>
    /\ \A e \in RowsOf(price_change_history[1]) : e.at = 1
    /\ \E e \in RowsOf(failed_price_change_attempts[1]) : e.at = 2

\* the write-back of the current cycle of tenant t has returned an error: the
\* final range does not hold the post-decision dataset
WriteBackFailed(t) ==
    /\ "write_back" \in StepSet(t)
    /\ sheet[t].final # updated_df_final[t]

\* C39: a cycle whose write-back has failed goes on: it never ends with an
\* error, when it has ended it has built a request for every changed row and
\* returned 'success', and the audit entries of its changed rows and of its
\* failed attempts stay in their tables
C39_WriteBackErrorSwallowed ==
    \A t \in Tenants :
        WriteBackFailed(t) =>
            /\ pc[t] \in {"dispatch", "gather", "finish", "after_cycle", "sleep", "loop",
                          "cancelled", "stopped"}
            /\ pc[t] \in {"after_cycle", "sleep", "loop"} =>
                  /\ result[t] = Success
                  /\ SkusOf(for_update_df[t]) \subseteq DispatchedSkus(t)
                  /\ for_update_df[t] # <<>> => "dispatch_end" \in StepSet(t)
            /\ \A i \in Idx(for_update_df[t]) :
                  \E e \in RowsOf(price_change_history[t]) :
                      e.sku = for_update_df[t][i].sku /\ e.at = cycle[t]
            /\ \A i \in Idx(failed_attempts_df[t]) :
                  \E e \in RowsOf(failed_price_change_attempts[t]) :
                      e.sku = failed_attempts_df[t][i].sku /\ e.at = cycle[t]

\* a cycle with changed rows and failed attempts has ended with 'success'
\* after requests were posted, although the final range was not written
C39_Witness ==
    /\ pc[1] = "after_cycle" /\ result[1] = Success
    /\ WriteBackFailed(1)
    /\ for_update_df[1] # <<>> /\ failed_attempts_df[1] # <<>>
    /\ tasks[1] # <<>>
    /\ \A i \in Idx(tasks[1]) : tasks[1][i].st = "done"

====
